---- MODULE Spec2Model ----
(***************************************************************************)
(* Progressive dashboard streaming of aq-telemetry.                        *)
(*                                                                         *)
(* One request is followed from the HTTP handler through                   *)
(* StreamingDashboardService::stream_dashboard (probe fetch, skeleton,     *)
(* fan-out of one task per tile and per chart series, completion task)     *)
(* to the consumer side of the mpsc channel (stream_from_receiver).        *)
(*                                                                         *)
(* Rust Strings are sequences of one-character strings, Option<T> is a     *)
(* sequence of length 0 (None) or 1 (Some), f64 values are their IEEE 754  *)
(* binary64 fields: sign, biased exponent, fraction.                       *)
(***************************************************************************)
EXTENDS Integers, Sequences, FiniteSets, Bags, TLC

VARIABLES
    widgets_config,    \* StreamingDashboardService.widgets_config
    aquarium_id,       \* path parameter of the request
    hours,             \* window of the request (handler default applied)
    pc,                \* position of stream_dashboard
    k,                 \* index of the spawn loops into WorkList
    available_probes,  \* local HashSet<ProbeMetadata> of stream_dashboard
    total_widgets,     \* local of stream_dashboard, moved into the completion task
    units,             \* spawned tile and series tasks, in spawn order
    fence,             \* the completion task
    chan,              \* messages buffered in the mpsc channel
    tx_main,           \* the sender owned by stream_dashboard is alive
    rx,                \* the receiver: held, open, dropped, ended
    wire,              \* messages the response stream has yielded, in order
    issued,            \* log of the queries sent to the repository
    frame,             \* one call of serialize_chunk: its arguments and its result
    accept_encoding,   \* the accept-encoding header of the request
    compress_flag,     \* local `compress` of the handler: None until it is computed
    http_response,     \* status and headers of the response, None until it is built
    body,              \* the chunks the response body stream has yielded, in order
    call               \* one call of a pure function: its arguments and its result

vars == <<widgets_config, aquarium_id, hours, pc, k, available_probes,
          total_widgets, units, fence, chan, tx_main, rx, wire, issued, frame,
          accept_encoding, compress_flag, http_response, body, call>>

---------------------------------------------------------------------------
(* Bounds of the model *)

\* most widgets with a query (tiles plus series) in a catalog of the model
MaxUnits == 2

\* most rows of a time-series response when the catalog has several widgets
MaxRows == 1

\* most points of an input of a call of downsample_points on its own
MaxPoints == 4

\* most fragments of a template of a call of the resolver on its own
MaxParts == 2

\* most characters of a made-up source id of a call of format_name
MaxIdLen == 4

\* most milliseconds the completion task reads beyond its sleep
MaxOverrun == 2

\* program constants
MAX_POINTS_PER_SERIES == 150
ChannelCapacity == 100
FenceDelayMs == 5000
DefaultHours == 6

---------------------------------------------------------------------------
(* Option and string helpers *)

None == <<>>
Some(x) == <<x>>

Range(s) == {s[i] : i \in 1..Len(s)}

Min(S) == CHOOSE x \in S : \A y \in S : x <= y

\* pat occurs in s at the 1-based position i
MatchesAt(s, i, pat) ==
    /\ i + Len(pat) - 1 <= Len(s)
    /\ \A j \in 1..Len(pat) : s[i + j - 1] = pat[j]

\* str::find: the 0-based offset of the first occurrence of pat in s
Find(s, pat) ==
    LET hits == {i \in 1..(Len(s) + 1) : MatchesAt(s, i, pat)}
    IN  IF hits = {} THEN None ELSE Some(Min(hits) - 1)

\* str::replace: every non-overlapping occurrence, left to right
RECURSIVE Replace(_, _, _)
Replace(s, pat, val) ==
    IF Len(pat) = 0 \/ Len(s) < Len(pat) THEN s
    ELSE IF MatchesAt(s, 1, pat)
         THEN val \o Replace(SubSeq(s, Len(pat) + 1, Len(s)), pat, val)
         ELSE <<s[1]>> \o Replace(SubSeq(s, 2, Len(s)), pat, val)

Digit(d) == <<"0", "1", "2", "3", "4", "5", "6", "7", "8", "9">>[d + 1]

RECURSIVE NatToString(_)
NatToString(n) ==
    IF n < 10 THEN <<Digit(n)>> ELSE NatToString(n \div 10) \o <<Digit(n % 10)>>

\* i32::to_string
IntToString(n) == IF n < 0 THEN <<"-">> \o NatToString(0 - n) ELSE NatToString(n)

---------------------------------------------------------------------------
(* Aquarium: domain/aquarium.rs *)

\* str::trim_end_matches('_'): the string without its trailing underscores
RECURSIVE trim_end_matches(_)
trim_end_matches(s) ==
    IF s # <<>> /\ s[Len(s)] = "_" THEN trim_end_matches(SubSeq(s, 1, Len(s) - 1))
    ELSE s

\* a name that loses one trailing underscore only
format_name_TrimOne(id) ==
    Replace(IF id # <<>> /\ id[Len(id)] = "_" THEN SubSeq(id, 1, Len(id) - 1) ELSE id,
            <<"_">>, <<" ">>)

\* Aquarium::format_name
format_name(id) == Replace(trim_end_matches(id), <<"_">>, <<" ">>)

---------------------------------------------------------------------------
(* Template resolver: config.rs prepare_query and its callers *)

\* format!("${{{}}}", key)
Placeholder(key) == <<"$", "{">> \o key \o <<"}">>

\* prepare_query with the HashMap iterated in the order `order` (a sequence
\* of the map's keys); varmap is a function from key to value
RECURSIVE prepare_query_in(_, _, _)
prepare_query_in(query, varmap, order) ==
    IF order = <<>> THEN query
    ELSE prepare_query_in(Replace(query, Placeholder(Head(order)), varmap[Head(order)]),
                          varmap, Tail(order))

KeySource == <<"s", "o", "u", "r", "c", "e">>
KeyHours == <<"h", "o", "u", "r", "s">>

\* the two iteration orders a HashMap of the two keys can have
VarOrders == {<<KeySource, KeyHours>>, <<KeyHours, KeySource>>}

\* prepare_tile_query: vars = {source: aquarium_id, hours: hours.to_string()}
prepare_tile_query(query, aq, hrs, order) ==
    prepare_query_in(query,
                     (KeySource :> aq) @@ (KeyHours :> IntToString(hrs)),
                     order)

prepare_chart_query(query, aq, hrs, order) == prepare_tile_query(query, aq, hrs, order)

---------------------------------------------------------------------------
(* Probe availability filter *)

TagProbeType == <<"p", "r", "o", "b", "e", "_", "t", "y", "p", "e">>
TagName == <<"n", "a", "m", "e">>

\* extract_tag_value: the text between the pattern "<tag>"=' and the next '
extract_tag_value(query, tag_name) ==
    LET pattern == <<"\"">> \o tag_name \o <<"\"", "=", "'">>
        start == Find(query, pattern)
    IN  IF start = None THEN None
        ELSE LET start_idx == start[1] + Len(pattern)
                 end_idx == Find(SubSeq(query, start_idx + 1, Len(query)), <<"'">>)
             IN  IF end_idx = None THEN None
                 ELSE Some(SubSeq(query, start_idx + 1, start_idx + end_idx[1]))

ProbeMetadata(pt, n) == [probe_type |-> pt, name |-> n]

\* a filter that never looks at the name
is_probe_available_TypeOnly(query, probes) ==
    LET probe_type == extract_tag_value(query, TagProbeType)
    IN  IF probe_type # None
            THEN \E p \in probes : p.probe_type = probe_type[1]
        ELSE TRUE

\* a filter that drops a widget whose query names no probe type
is_probe_available_FailClosed(query, probes) ==
    LET probe_type == extract_tag_value(query, TagProbeType)
        name == extract_tag_value(query, TagName)
    IN  IF probe_type # None /\ name # None
            THEN ProbeMetadata(probe_type[1], name[1]) \in probes
        ELSE IF probe_type # None
            THEN \E p \in probes : p.probe_type = probe_type[1]
        ELSE FALSE

is_probe_available(query, probes) ==
    LET probe_type == extract_tag_value(query, TagProbeType)
        name == extract_tag_value(query, TagName)
    IN  IF probe_type # None /\ name # None
            THEN ProbeMetadata(probe_type[1], name[1]) \in probes
        ELSE IF probe_type # None
            THEN \E p \in probes : p.probe_type = probe_type[1]
        ELSE TRUE

---------------------------------------------------------------------------
(* Skeleton *)

\* Iterator::filter over a sequence
Filter(s, Keep(_)) == SelectSeq(s, Keep)

Map(s, F(_)) == [i \in 1..Len(s) |-> F(s[i])]

TileSkeleton(t) ==
    [id |-> Some(t.id), title |-> Some(t.title), unit |-> Some(t.unit),
     precision |-> Some(t.precision)]

SeriesSkeleton(s) == [id |-> Some(s.id), name |-> Some(s.name), color |-> s.color]

ChartKindOf(kind) == IF kind = "line" THEN "LINE" ELSE "MULTILINE"

\* a closure that keeps a chart whatever is left of its series
ChartSkeleton_KeepEmpty(c, probes) ==
    Some([id |-> Some(c.id), title |-> Some(c.title), unit |-> c.unit,
          kind |-> Some(ChartKindOf(c.kind)), y_min |-> c.y_min,
          y_max |-> c.y_max, fraction_digits |-> c.fraction_digits,
          series |-> Some(Map(Filter(c.series,
                                     LAMBDA s : is_probe_available(s.query, probes)),
                              SeriesSkeleton))])

\* the closure of filter_map in build_skeleton: None for a chart left with no series
ChartSkeleton(c, probes) ==
    LET series == Map(Filter(c.series,
                             LAMBDA s : is_probe_available(s.query, probes)),
                      SeriesSkeleton)
    IN  IF series = <<>> THEN None
        ELSE Some([id |-> Some(c.id), title |-> Some(c.title), unit |-> c.unit,
                   kind |-> Some(ChartKindOf(c.kind)), y_min |-> c.y_min,
                   y_max |-> c.y_max, fraction_digits |-> c.fraction_digits,
                   series |-> Some(series)])

RECURSIVE Flatten(_)
Flatten(opts) == IF opts = <<>> THEN <<>> ELSE Head(opts) \o Flatten(Tail(opts))

build_skeleton(cfg, aq, probes) ==
    LET tiles == Map(Filter(cfg.tiles,
                            LAMBDA t : is_probe_available(t.query, probes)),
                     TileSkeleton)
        charts == Flatten(Map(cfg.charts, LAMBDA c : ChartSkeleton(c, probes)))
    IN  [aquarium_id |-> Some(aq), tiles |-> Some(tiles), charts |-> Some(charts)]

---------------------------------------------------------------------------
(* StreamMessage::new(type, skeleton, tile_update, chart_update, complete) *)

StreamMessage(ty, sk, tu, cu, co) ==
    [type |-> ty, skeleton |-> sk, tile_update |-> tu, chart_update |-> cu,
     complete |-> co]

SkeletonMsg(skeleton) == StreamMessage(Some("SKELETON"), Some(skeleton), None, None, None)

TileUpdateMsg(tile_id, value) ==
    StreamMessage(Some("TILE_UPDATE"), None,
                  Some([tile_id |-> Some(tile_id), value |-> Some(value)]), None, None)

SDPoint(p) == [t |-> Some(p.time_ms), v |-> Some(p.value)]

\* a ChartUpdate with the chart id and the series id exchanged
ChartUpdateMsg_Swapped(chart_id, series_id, points) ==
    StreamMessage(Some("CHART_UPDATE"), None, None,
                  Some([chart_id |-> Some(series_id),
                        series |-> Some(<<[series_id |-> Some(chart_id),
                                           points |-> Some(Map(points, SDPoint))]>>)]),
                  None)

ChartUpdateMsg(chart_id, series_id, points) ==
    StreamMessage(Some("CHART_UPDATE"), None, None,
                  Some([chart_id |-> Some(chart_id),
                        series |-> Some(<<[series_id |-> Some(series_id),
                                           points |-> Some(Map(points, SDPoint))]>>)]),
                  None)

CompleteMsg(total, duration_ms) ==
    StreamMessage(Some("COMPLETE"), None, None, None,
                  Some([total_widgets |-> Some(total), duration_ms |-> Some(duration_ms)]))

---------------------------------------------------------------------------
(* f64: IEEE 754 binary64                                                  *)
(*                                                                         *)
(* An f64 is its sign, its biased exponent (11 bits) and its fraction (52  *)
(* bits: a 4-bit digit and six bytes, most significant first). A natural   *)
(* number too wide for one integer is the sequence of its bytes, most      *)
(* significant first. Every operation rounds to nearest, ties to even.     *)

\* 2^e for the bit positions within a byte, 0 <= e <= 8
Pow2(e) == <<1, 2, 4, 8, 16, 32, 64, 128, 256>>[e + 1]

Abs(n) == IF n < 0 THEN 0 - n ELSE n

\* the w low-order bytes of n, most significant first (two's complement)
RECURSIVE BigEndian(_, _)
BigEndian(n, w) == IF w = 0 THEN <<>> ELSE BigEndian(n \div 256, w - 1) \o <<n % 256>>

Zeros(n) == [i \in 1..n |-> 0]

\* a without its leading zero bytes
BigTrim(a) ==
    IF \A i \in 1..Len(a) : a[i] = 0 THEN <<>>
    ELSE SubSeq(a, Min({i \in 1..Len(a) : a[i] # 0}), Len(a))

\* a in n bytes (n >= Len(a))
BigPad(a, n) == Zeros(n - Len(a)) \o a

TrimmedBitLen(t) ==
    IF t = <<>> THEN 0
    ELSE 8 * (Len(t) - 1) + Min({n \in 1..8 : t[1] < Pow2(n)})

\* the number of bits of a: 0 for 0, else 1 + floor(log2 a)
BigBitLen(a) == TrimmedBitLen(BigTrim(a))

\* bit j of a, bit 0 the lowest
BigBit(a, j) ==
    IF j < 0 \/ j >= 8 * Len(a) THEN 0
    ELSE (a[Len(a) - (j \div 8)] \div Pow2(j % 8)) % 2

\* the s lowest bits of a are zero
BigLowZero(a, s) == \A j \in 0..(s - 1) : BigBit(a, j) = 0

ShlBytes(wide, r) ==
    [i \in 1..Len(wide) |->
        ((wide[i] * Pow2(r)) % 256)
        + (IF i < Len(wide) THEN wide[i + 1] \div Pow2(8 - r) ELSE 0)]

\* a * 2^s
BigShl(a, s) == ShlBytes(<<0>> \o a, s % 8) \o Zeros(s \div 8)

ShrBytes(kept, r) ==
    [i \in 1..Len(kept) |->
        (kept[i] \div Pow2(r))
        + (IF i > 1 THEN (kept[i - 1] % Pow2(r)) * Pow2(8 - r) ELSE 0)] \o <<>>

\* floor(a / 2^s)
BigShr(a, s) ==
    ShrBytes(IF s \div 8 >= Len(a) THEN <<>> ELSE SubSeq(a, 1, Len(a) - (s \div 8)), s % 8)

\* x + y for x and y of n bytes; the carry into a byte comes from the nearest
\* lower pair of bytes that overflows, every pair between summing to 255
BigAddPadded(x, y, n) ==
    [i \in 1..n |->
        (x[i] + y[i]
         + (IF \E j \in (i + 1)..n :
                   /\ x[j] + y[j] >= 256
                   /\ \A m \in (i + 1)..(j - 1) : x[m] + y[m] = 255
            THEN 1 ELSE 0)) % 256] \o <<>>

\* a + b
BigAdd(a, b) ==
    BigAddPadded(BigPad(a, (IF Len(a) > Len(b) THEN Len(a) ELSE Len(b)) + 1),
                 BigPad(b, (IF Len(a) > Len(b) THEN Len(a) ELSE Len(b)) + 1),
                 (IF Len(a) > Len(b) THEN Len(a) ELSE Len(b)) + 1)

\* x - y for x >= y of n bytes, the borrows found as the carries are
BigSubPadded(x, y, n) ==
    [i \in 1..n |->
        (256 + x[i] - y[i]
         - (IF \E j \in (i + 1)..n :
                   /\ x[j] < y[j]
                   /\ \A m \in (i + 1)..(j - 1) : x[m] = y[m]
            THEN 1 ELSE 0)) % 256] \o <<>>

\* a - b for a >= b
BigSub(a, b) ==
    BigSubPadded(BigPad(a, IF Len(a) > Len(b) THEN Len(a) ELSE Len(b)),
                 BigPad(b, IF Len(a) > Len(b) THEN Len(a) ELSE Len(b)),
                 IF Len(a) > Len(b) THEN Len(a) ELSE Len(b))

BigLessPadded(x, y, n) ==
    \E i \in 1..n : x[i] < y[i] /\ \A m \in 1..(i - 1) : x[m] = y[m]

\* a < b
BigLess(a, b) ==
    BigLessPadded(BigPad(a, IF Len(a) > Len(b) THEN Len(a) ELSE Len(b)),
                  BigPad(b, IF Len(a) > Len(b) THEN Len(a) ELSE Len(b)),
                  IF Len(a) > Len(b) THEN Len(a) ELSE Len(b))

\* long division of a by n (0 < n < 2^23), r the remainder carried in
RECURSIVE BigDivSmall(_, _, _)
DivStep(cur, rest, n) == [quot |-> <<cur \div n>> \o rest.quot, rem |-> rest.rem]

BigDivSmall(a, r, n) ==
    IF a = <<>> THEN [quot |-> <<>>, rem |-> r]
    ELSE DivStep(r * 256 + Head(a), BigDivSmall(Tail(a), (r * 256 + Head(a)) % n, n), n)

F64Bits(neg, exp, frac) == [neg |-> neg, exp |-> exp, frac |-> frac]

ZeroF64(neg) == F64Bits(neg, 0, Zeros(7))

Infinity(neg) == F64Bits(neg, 2047, Zeros(7))

\* the quiet NaN an invalid operation gives on x86-64
NaN == F64Bits(TRUE, 2047, <<8>> \o Zeros(6))

IsNaN(x) == x.exp = 2047 /\ x.frac # Zeros(7)

IsInfinite(x) == x.exp = 2047 /\ x.frac = Zeros(7)

\* a finite x is Significand(x) * 2^Exponent(x): the fraction under its
\* hidden bit (none for a subnormal), in seven bytes
Significand(x) == <<x.frac[1] + (IF x.exp > 0 THEN 16 ELSE 0)>> \o SubSeq(x.frac, 2, 7)

Exponent(x) == (IF x.exp > 0 THEN x.exp ELSE 1) - 1075

\* the f64 of sign neg whose significand, hidden bit included, is `kept`
\* (seven bytes) and whose last bit counts 2^last
PackF64(neg, kept, last) ==
    IF kept[1] < 16 THEN F64Bits(neg, 0, kept)
    ELSE IF last + 1075 >= 2047 THEN Infinity(neg)
    ELSE F64Bits(neg, last + 1075, <<kept[1] % 16>> \o SubSeq(kept, 2, 7))

\* a significand that rounding has carried to 54 bits gives up its last bit
Renormalized(neg, rounded, last) ==
    IF BigBitLen(rounded) = 54
    THEN PackF64(neg, BigPad(BigTrim(BigShr(rounded, 1)), 7), last + 1)
    ELSE PackF64(neg, BigPad(BigTrim(rounded), 7), last)

\* m without its `drop` lowest bits, plus one when they are more than half
\* of the last bit kept, or half of it and the bit kept is odd
RoundedDown(m, drop, floor, inexact) ==
    IF /\ BigBit(m, drop - 1) = 1
       /\ (inexact \/ ~BigLowZero(m, drop - 1) \/ BigBit(floor, 0) = 1)
    THEN BigAdd(floor, <<1>>)
    ELSE floor

RoundedAt(neg, m, exponent, inexact, last) ==
    IF last <= exponent THEN Renormalized(neg, BigShl(m, exponent - last), last)
    ELSE Renormalized(neg, RoundedDown(m, last - exponent, BigShr(m, last - exponent),
                                       inexact), last)

RoundTrimmed(neg, m, bits, exponent, inexact) ==
    IF m = <<>> THEN ZeroF64(neg)
    ELSE RoundedAt(neg, m, exponent, inexact,
                   IF exponent + bits - 53 > 0 - 1074 THEN exponent + bits - 53
                   ELSE 0 - 1074)

\* the f64 nearest magnitude * 2^exponent, ties to even: 53 bits are kept,
\* fewer below the normal range, infinity above it. `inexact` says that
\* magnitude is itself a quotient cut off with a remainder; such a one has
\* more bits than are kept.
RoundToF64(neg, magnitude, exponent, inexact) ==
    RoundTrimmed(neg, BigTrim(magnitude), BigBitLen(magnitude), exponent, inexact)

\* x + y for finite x = (-1)^x.neg * a * 2^e and y likewise
AddAligned(x, y, a, b, e) ==
    IF x.neg = y.neg THEN RoundToF64(x.neg, BigAdd(a, b), e, FALSE)
    ELSE IF BigLess(a, b) THEN RoundToF64(y.neg, BigSub(b, a), e, FALSE)
    ELSE IF BigLess(b, a) THEN RoundToF64(x.neg, BigSub(a, b), e, FALSE)
    ELSE ZeroF64(FALSE)

AddFinite(x, y, e) ==
    AddAligned(x, y, BigShl(Significand(x), Exponent(x) - e),
               BigShl(Significand(y), Exponent(y) - e), e)

\* x + y
F64Add(x, y) ==
    IF IsNaN(x) \/ IsNaN(y) THEN NaN
    ELSE IF IsInfinite(x) THEN (IF IsInfinite(y) /\ x.neg # y.neg THEN NaN ELSE x)
    ELSE IF IsInfinite(y) THEN y
    ELSE AddFinite(x, y, IF Exponent(x) < Exponent(y) THEN Exponent(x) ELSE Exponent(y))

DivRounded(neg, division, exponent) ==
    RoundToF64(neg, division.quot, exponent, division.rem # 0)

\* x / (n as f64) for a count 0 < n < 2^23: the quotient is taken to 80
\* bits below the significand, more than are kept
F64DivCount(x, n) ==
    IF IsNaN(x) \/ IsInfinite(x) THEN x
    ELSE DivRounded(x.neg, BigDivSmall(Significand(x) \o Zeros(10), 0, n),
                    Exponent(x) - 80)

\* the f64 a number of the value n/d is parsed to (0 < d < 2^23)
F64Of(n, d) ==
    DivRounded(n < 0, BigDivSmall(BigEndian(Abs(n), 4) \o Zeros(10), 0, d), 0 - 80)

---------------------------------------------------------------------------
(* Downsampler: influx_repository.rs *)

\* chunk.iter().map(|p| p.value).sum::<f64>(): the values added one by one
\* from the left, each sum rounded, onto the neutral element -0.0
RECURSIVE SumValues(_)
SumValues(chunk) ==
    IF chunk = <<>> THEN ZeroF64(TRUE)
    ELSE F64Add(SumValues(SubSeq(chunk, 1, Len(chunk) - 1)), chunk[Len(chunk)].value)

TimeSeriesPoint(time_ms, value) == [time_ms |-> time_ms, value |-> value]

\* stands for usize::MAX (the largest integer of the checker): more than the
\* length of any Vec
UsizeMax == 2147483647

\* a bucket size rounded down instead of up
BucketSize_Floor(len, max_points) ==
    IF max_points = 0 THEN UsizeMax
    ELSE len \div max_points

\* (len as f64 / max_points as f64).ceil() as usize; a division by zero is
\* +inf, which the cast saturates to usize::MAX
BucketSize(len, max_points) ==
    IF max_points = 0 THEN UsizeMax
    ELSE (len + max_points - 1) \div max_points

\* a bucket stamped with the time of its first point
BucketPoint_FirstTimestamp(chunk) ==
    LET sum == SumValues(chunk)
    IN  TimeSeriesPoint(chunk[1].time_ms, F64DivCount(sum, Len(chunk)))

RECURSIVE SumTimes(_)
SumTimes(chunk) ==
    IF chunk = <<>> THEN 0 ELSE Head(chunk).time_ms + SumTimes(Tail(chunk))

\* a bucket stamped with the mean of the times of its points
BucketPoint_MeanTimestamp(chunk) ==
    LET sum == SumValues(chunk)
    IN  TimeSeriesPoint(SumTimes(chunk) \div Len(chunk), F64DivCount(sum, Len(chunk)))

\* the point pushed for the chunk points[chunk_start .. chunk_end) (0-based)
BucketPoint(chunk) ==
    LET mid_idx == Len(chunk) \div 2
        sum == SumValues(chunk)
        avg_value == F64DivCount(sum, Len(chunk))
    IN  TimeSeriesPoint(chunk[mid_idx + 1].time_ms, avg_value)

\* the values (0..len).step_by(bucket_size) yields
ChunkStarts(len, bucket_size) == {c \in 0..(len - 1) : c % bucket_size = 0}

\* the loop over the chunk starts, in increasing order; a chunk starts below
\* points.len(), so it is never empty and the loop never skips one
DownsampleLoop(points, bucket_size) ==
    [b \in 1..Cardinality(ChunkStarts(Len(points), bucket_size)) |->
        LET chunk_start == (b - 1) * bucket_size
            chunk_end == IF bucket_size < Len(points) - chunk_start
                         THEN chunk_start + bucket_size
                         ELSE Len(points)
        IN  BucketPoint(SubSeq(points, chunk_start + 1, chunk_end))]

\* a downsampler that starts to reduce at half the bound
downsample_points_HalfBound(points, max_points) ==
    IF points = <<>> \/ 2 * Len(points) <= max_points THEN points
    ELSE DownsampleLoop(points, BucketSize(2 * Len(points), max_points))

downsample_points(points, max_points) ==
    IF points = <<>> \/ Len(points) <= max_points THEN points
    ELSE DownsampleLoop(points, BucketSize(Len(points), max_points))

---------------------------------------------------------------------------
(* Repository results: anyhow::Result<T> as [ok, val] *)

Ok(v) == [ok |-> TRUE, val |-> v]
Err == [ok |-> FALSE]

\* query_time_series_downsampled, from the outcome of execute_query and the
\* points parsed out of the response
query_time_series_downsampled(response, max_points) ==
    IF ~response.ok THEN Err
    ELSE IF Len(response.val) > max_points
         THEN Ok(downsample_points(response.val, max_points))
         ELSE Ok(response.val)

---------------------------------------------------------------------------
(* Inputs of the model: widget catalogs, probe sets, upstream responses *)

\* h='${source}' AND
FragHost == <<"h", "=", "'", "$", "{", "s", "o", "u", "r", "c", "e", "}", "'", " ", "A", "N", "D", " ">>
\* "probe_type"='
FragType == <<"\"", "p", "r", "o", "b", "e", "_", "t", "y", "p", "e", "\"", "=", "'">>
\* "name"='
FragName == <<"\"", "n", "a", "m", "e", "\"", "=", "'">>
\* ' AND
FragAnd == <<"'", " ", "A", "N", "D", " ">>
\* probe_type='   (unquoted tag: not an availability key)
FragBareType == <<"p", "r", "o", "b", "e", "_", "t", "y", "p", "e", "=", "'">>
\* t>now()-${hours}h
FragTime == <<"t", ">", "n", "o", "w", "(", ")", "-", "$", "{", "h", "o", "u", "r", "s", "}", "h">>

QueryTypeName(pt, n) == FragHost \o FragType \o pt \o FragAnd \o FragName \o n \o FragAnd \o FragTime
QueryTypeOnly(pt) == FragHost \o FragType \o pt \o FragAnd \o FragTime
QueryNoType(pt, n) == FragHost \o FragBareType \o pt \o FragAnd \o FragName \o n \o FragAnd \o FragTime

TileConfig(id, title, unit, precision, query) ==
    [id |-> id, title |-> title, unit |-> unit, precision |-> precision, query |-> query]

SeriesConfig(id, name, color, query) ==
    [id |-> id, name |-> name, color |-> color, query |-> query]

ChartConfig(id, title, unit, kind, series) ==
    [id |-> id, title |-> title, unit |-> unit, kind |-> kind, y_min |-> None,
     y_max |-> None, fraction_digits |-> Some(1), series |-> series]

TileDefs ==
    <<TileConfig("temp", "Temperature", "C", 1, QueryTypeName(<<"T">>, <<"a">>)),
      TileConfig("ph", "pH", "", 2, QueryTypeOnly(<<"P">>)),
      TileConfig("salt", "Salinity", "ppt", 1, QueryNoType(<<"T">>, <<"a">>))>>

SeriesDefs ==
    <<SeriesConfig("s_temp", "Temp", Some("red"), QueryTypeName(<<"T">>, <<"a">>)),
      SeriesConfig("s_ph", "pH", None, QueryTypeName(<<"P">>, <<"b">>)),
      SeriesConfig("s_orp", "ORP", None, QueryTypeName(<<"O">>, <<"c">>))>>

\* the subsequence of s at the indices in idx, order kept
Pick(s, idx) == SelectSeq(s, LAMBDA x : \E i \in idx : s[i] = x)

\* a catalog: some of the tiles, a line chart over the first two series and
\* a multi-line chart over the third
Catalog(T, S1, S2) ==
    [tiles |-> Pick(TileDefs, T),
     charts |-> <<ChartConfig("c_env", "Environment", None, "line", Pick(SeriesDefs, S1)),
                  ChartConfig("c_orp", "ORP", Some("mV"), "multi", Pick(SeriesDefs, S2))>>]

Catalogs ==
    {Catalog(T, S1, S2) : T \in SUBSET {1, 2, 3}, S1 \in SUBSET {1, 2}, S2 \in SUBSET {3}}

NumUnits(cfg) ==
    Len(cfg.tiles) + Len(cfg.charts[1].series) + Len(cfg.charts[2].series)

AquariumIds == {<<"r", "e", "e", "f">>}

\* the hours query parameter: Option<i32>
HoursParams == {None}

AllProbes ==
    {ProbeMetadata(<<"T">>, <<"a">>), ProbeMetadata(<<"P">>, <<"b">>),
     ProbeMetadata(<<"P">>, <<"z">>)}

\* outcomes of get_probe_metadata
ProbeResults == {Err} \cup {Ok(P) : P \in SUBSET AllProbes}

\* outcomes of query_single_value
SingleValueResults == {Err, Ok(None), Ok(Some(F64Of(21, 1)))}

\* the values 0, 1, 2, 3 as the rows of a response carry them
Readings == [v \in 0..3 |-> F64Of(v, 1)]

\* the points parsed from a time-series response of n rows
RawSeries(n) == [i \in 1..n |-> TimeSeriesPoint(1000 * i, Readings[i % 4])]

\* row counts of the time-series responses of the model: short ones always,
\* the ones around the downsampling threshold when the catalog has one widget
SeriesLengths(nunits) ==
    {0, MaxRows} \cup
    (IF nunits <= 1
     THEN {MAX_POINTS_PER_SERIES, MAX_POINTS_PER_SERIES + 1, 2 * MAX_POINTS_PER_SERIES + 1}
     ELSE {})

\* outcomes of execute_query for a time-series query
TimeSeriesResponses(nunits) == {Err} \cup {Ok(RawSeries(n)) : n \in SeriesLengths(nunits)}

\* query_time_series_downsampled(query, MAX_POINTS_PER_SERIES) for each
\* outcome of execute_query
SeriesResult ==
    [r \in UNION {TimeSeriesResponses(nunits) : nunits \in 0..MaxUnits} |->
        query_time_series_downsampled(r, MAX_POINTS_PER_SERIES)]

\* no call of serialize_chunk: the message, the compress flag, what the
\* encoder returned, the result
NoFrame == [msg |-> None, compress |-> FALSE, encoded |-> None, chunk |-> None]

\* no call of a pure function
NoCall == [op |-> "", args |-> <<>>, ret |-> None]

\* what the request has taken beyond the sleep of the completion task when
\* the task reads the clock, in ms: the time of the probe fetch, of the spawn
\* loops and of the wake-up, any number from 0 up, here up to MaxOverrun
Overruns == 0..MaxOverrun

\* start_time.elapsed().as_millis() as the completion task may read it:
\* start_time is taken before the probe fetch and the sleep lasts
\* FenceDelayMs at least, so any number of ms from FenceDelayMs up
Durations == {FenceDelayMs + over : over \in Overruns}

---------------------------------------------------------------------------
(* stream_dashboard: the orchestrating future *)

\* a statement order in which the Skeleton is sent after the tasks are spawned
PcAfter_SpawnFirst(p) ==
    CASE p = "fetch" -> "spawn"
      [] p = "spawn" -> "fence"
      [] p = "fence" -> "skeleton"
      [] p = "skeleton" -> "return"
      [] p = "return" -> "returned"

\* a statement order that fetches the probes again after the spawn loops
PcAfter_FetchAgain(p) ==
    CASE p = "fetch" -> "skeleton"
      [] p = "skeleton" -> "spawn"
      [] p = "spawn" -> "fetch"
      [] p = "fence" -> "return"
      [] p = "return" -> "returned"

\* statement order of stream_dashboard: probe fetch, skeleton send, the two
\* spawn loops, the completion task spawn, return of the receiver
PcAfter(p) ==
    CASE p = "fetch" -> "skeleton"
      [] p = "skeleton" -> "spawn"
      [] p = "spawn" -> "fence"
      [] p = "fence" -> "return"
      [] p = "return" -> "returned"

\* the items the two spawn loops visit, in order: every tile, then every
\* series of every chart
RECURSIVE SeriesItems(_)
SeriesItems(charts) ==
    IF charts = <<>> THEN <<>>
    ELSE [i \in 1..Len(Head(charts).series) |->
             [kind |-> "series", tile_id |-> "", chart_id |-> Head(charts).id,
              series_id |-> Head(charts).series[i].id,
              query |-> Head(charts).series[i].query]]
         \o SeriesItems(Tail(charts))

WorkList(cfg) ==
    [i \in 1..Len(cfg.tiles) |->
        [kind |-> "tile", tile_id |-> cfg.tiles[i].id, chart_id |-> "",
         series_id |-> "", query |-> cfg.tiles[i].query]]
    \o SeriesItems(cfg.charts)

\* the handler: hours = query.hours.unwrap_or(6)
HandlerHours(param) == IF param = None THEN DefaultHours ELSE param[1]

Init ==
    /\ widgets_config \in {c \in Catalogs : NumUnits(c) <= MaxUnits}
    /\ aquarium_id \in AquariumIds
    /\ hours \in {HandlerHours(h) : h \in HoursParams}
    /\ pc = "fetch"
    /\ k = 1
    /\ available_probes = {}
    /\ total_widgets = 0
    /\ units = <<>>
    /\ fence = [st |-> "unspawned", msg |-> None]
    /\ chan = <<>>
    /\ tx_main = TRUE
    /\ rx = "held"
    /\ wire = <<>>
    /\ issued = EmptyBag
    /\ frame = NoFrame
    /\ accept_encoding = None
    /\ compress_flag = None
    /\ http_response = None
    /\ body = <<>>
    /\ call = NoCall

\* spawn loops that do not filter
Dispatched_Unfiltered(item, probes) == TRUE

\* the availability check at the head of each spawn loop body
Dispatched(item, probes) == is_probe_available(item.query, probes)

\* a fetch whose failure fails the request: get_probe_metadata(..).await?
FetchProbesReturns_Propagate(r) ==
    /\ pc = "fetch"
    /\ available_probes' = (IF r.ok THEN r.val ELSE {})
    /\ pc' = (IF r.ok THEN PcAfter(pc) ELSE "failed")
    /\ UNCHANGED <<widgets_config, aquarium_id, hours, k, total_widgets, units, fence,
                   chan, tx_main, rx, wire, issued, frame,
                   accept_encoding, compress_flag, http_response, body, call>>

\* get_probe_metadata(..).await returns r; unwrap_or_default(), collected
\* into a HashSet
FetchProbesReturns(r) ==
    /\ pc = "fetch"
    /\ available_probes' = (IF r.ok THEN r.val ELSE {})
    /\ pc' = PcAfter(pc)
    /\ UNCHANGED <<widgets_config, aquarium_id, hours, k, total_widgets, units, fence,
                   chan, tx_main, rx, wire, issued, frame,
                   accept_encoding, compress_flag, http_response, body, call>>

\* the probe fetch, whatever get_probe_metadata returns
FetchProbes == \E r \in ProbeResults : FetchProbesReturns(r)

\* a channel without a bound: a send never waits
CanSend_Unbounded == TRUE

\* a send that goes on waiting for a permit after the receiver is gone
CanSend_WaitsOnClosed == rx # "dropped" /\ Len(chan) < ChannelCapacity

\* tx.send(msg).await as one step: Err when the receiver is gone, the message
\* is queued when a permit is free; not enabled (the sender waits) otherwise
CanSend == rx = "dropped" \/ Len(chan) < ChannelCapacity

\* a send that puts its message on the channel twice
AfterSend_Twice(msg) == IF rx = "dropped" THEN chan ELSE Append(Append(chan, msg), msg)

\* a channel the completion task closes when it ends
AfterSend_ClosedByFence(msg) ==
    IF rx = "dropped" \/ fence.st = "done" THEN chan ELSE Append(chan, msg)

AfterSend(msg) == IF rx = "dropped" THEN chan ELSE Append(chan, msg)

\* a total that counts the tiles and the series of the skeleton
SendSkeleton_CountsSeries ==
    /\ pc = "skeleton"
    /\ CanSend
    /\ LET skeleton == build_skeleton(widgets_config, aquarium_id, available_probes)
       IN  /\ total_widgets' = Len(skeleton.tiles[1])
                                + Len(Flatten(Map(skeleton.charts[1],
                                                  LAMBDA c : c.series[1])))
           /\ chan' = AfterSend(SkeletonMsg(skeleton))
    /\ pc' = PcAfter(pc)
    /\ UNCHANGED <<widgets_config, aquarium_id, hours, k, available_probes, units, fence,
                   tx_main, rx, wire, issued, frame,
                   accept_encoding, compress_flag, http_response, body, call>>

\* a total that counts the tiles of the skeleton and not its charts
SendSkeleton_TilesOnly ==
    /\ pc = "skeleton"
    /\ CanSend
    /\ LET skeleton == build_skeleton(widgets_config, aquarium_id, available_probes)
       IN  /\ total_widgets' = Len(skeleton.tiles[1])
           /\ chan' = AfterSend(SkeletonMsg(skeleton))
    /\ pc' = PcAfter(pc)
    /\ UNCHANGED <<widgets_config, aquarium_id, hours, k, available_probes, units, fence,
                   tx_main, rx, wire, issued, frame,
                   accept_encoding, compress_flag, http_response, body, call>>

\* build_skeleton, total_widgets and the send of the Skeleton message
SendSkeleton ==
    /\ pc = "skeleton"
    /\ CanSend
    /\ LET skeleton == build_skeleton(widgets_config, aquarium_id, available_probes)
       IN  /\ total_widgets' = Len(skeleton.tiles[1]) + Len(skeleton.charts[1])
           /\ chan' = AfterSend(SkeletonMsg(skeleton))
    /\ pc' = PcAfter(pc)
    /\ UNCHANGED <<widgets_config, aquarium_id, hours, k, available_probes, units, fence,
                   tx_main, rx, wire, issued, frame,
                   accept_encoding, compress_flag, http_response, body, call>>

\* one iteration of a spawn loop: skip the item or spawn its task
SpawnItem ==
    /\ pc = "spawn"
    /\ k <= Len(WorkList(widgets_config))
    /\ LET item == WorkList(widgets_config)[k]
       IN  IF ~Dispatched(item, available_probes)
           THEN units' = units
           ELSE \E order \in VarOrders :
                   units' = Append(units,
                       [kind |-> item.kind, tile_id |-> item.tile_id,
                        chart_id |-> item.chart_id, series_id |-> item.series_id,
                        query |-> IF item.kind = "tile"
                                  THEN prepare_tile_query(item.query, aquarium_id, hours, order)
                                  ELSE prepare_chart_query(item.query, aquarium_id, hours, order),
                        st |-> "spawned", result |-> None, msg |-> None])
    /\ k' = k + 1
    /\ UNCHANGED <<widgets_config, aquarium_id, hours, pc, available_probes, total_widgets,
                   fence, chan, tx_main, rx, wire, issued, frame,
                   accept_encoding, compress_flag, http_response, body, call>>

\* both loops are over
SpawnDone ==
    /\ pc = "spawn"
    /\ k > Len(WorkList(widgets_config))
    /\ pc' = PcAfter(pc)
    /\ UNCHANGED <<widgets_config, aquarium_id, hours, k, available_probes, total_widgets,
                   units, fence, chan, tx_main, rx, wire, issued, frame,
                   accept_encoding, compress_flag, http_response, body, call>>

\* tokio::spawn of the completion task
SpawnFence ==
    /\ pc = "fence"
    /\ fence' = [st |-> "sleeping", msg |-> None]
    /\ pc' = PcAfter(pc)
    /\ UNCHANGED <<widgets_config, aquarium_id, hours, k, available_probes, total_widgets,
                   units, chan, tx_main, rx, wire, issued, frame,
                   accept_encoding, compress_flag, http_response, body, call>>

\* a stream_dashboard whose own sender outlives the call
ReturnReceiver_KeepsSender ==
    /\ pc = "return"
    /\ pc' = PcAfter(pc)
    /\ tx_main' = tx_main
    /\ rx' = "open"
    /\ UNCHANGED <<widgets_config, aquarium_id, hours, k, available_probes, total_widgets,
                   units, fence, chan, wire, issued, frame,
                   accept_encoding, compress_flag, http_response, body, call>>

\* stream_dashboard returns rx and drops its own tx; the handler hands rx to
\* stream_from_receiver
ReturnReceiver ==
    /\ pc = "return"
    /\ pc' = PcAfter(pc)
    /\ tx_main' = FALSE
    /\ rx' = "open"
    /\ UNCHANGED <<widgets_config, aquarium_id, hours, k, available_probes, total_widgets,
                   units, fence, chan, wire, issued, frame,
                   accept_encoding, compress_flag, http_response, body, call>>

---------------------------------------------------------------------------
(* The spawned tasks *)

UnitIds == 1..Len(units)

\* the repository call a task makes when it is first polled
RepoCall(u) ==
    IF u.kind = "tile"
    THEN [op |-> "query_single_value", query |-> u.query, max_points |-> 0]
    ELSE [op |-> "query_time_series_downsampled", query |-> u.query,
          max_points |-> MAX_POINTS_PER_SERIES]

\* a task starts: it issues its query and awaits the repository
UnitStart(i) ==
    /\ units[i].st = "spawned"
    /\ units' = [units EXCEPT ![i].st = "querying"]
    /\ issued' = issued (+) SetToBag({RepoCall(units[i])})
    /\ UNCHANGED <<widgets_config, aquarium_id, hours, pc, k, available_probes,
                   total_widgets, fence, chan, tx_main, rx, wire, frame,
                   accept_encoding, compress_flag, http_response, body, call>>

\* a tile task that sends a default value when the query has no row
TileTaskMsg_Default(u, result) ==
    IF result.ok
    THEN Some(TileUpdateMsg(u.tile_id, IF result.val # None THEN result.val[1] ELSE ZeroF64(FALSE)))
    ELSE None

\* the message a tile task builds from the result of query_single_value:
\* if let Ok(Some(value)) = ..
TileTaskMsg(u, result) ==
    IF result.ok /\ result.val # None
    THEN Some(TileUpdateMsg(u.tile_id, result.val[1]))
    ELSE None

\* the message a series task builds from the result of
\* query_time_series_downsampled: if let Ok(points) = .. { if !points.is_empty()
SeriesTaskMsg(u, result) ==
    IF result.ok /\ result.val # <<>>
    THEN Some(ChartUpdateMsg(u.chart_id, u.series_id, result.val))
    ELSE None

\* a task that reports a failed query to the client as an error message
UnitAfterQuery_ErrorMsg(u, result) ==
    LET msg == IF ~result.ok THEN Some(StreamMessage(Some("ERROR"), None, None, None, None))
               ELSE IF u.kind = "tile" THEN TileTaskMsg(u, result)
               ELSE SeriesTaskMsg(u, result)
    IN  [u EXCEPT !.result = Some(result),
                  !.msg = msg,
                  !.st = IF msg = None THEN "done" ELSE "sending"]

\* the task after its query returned `result`: it goes on to send, or ends
\* (dropping its sender) when there is nothing to send
UnitAfterQuery(u, result) ==
    LET msg == IF u.kind = "tile" THEN TileTaskMsg(u, result) ELSE SeriesTaskMsg(u, result)
    IN  [u EXCEPT !.result = Some(result),
                  !.msg = msg,
                  !.st = IF msg = None THEN "done" ELSE "sending"]

\* the repository answers a task's query
UnitQueryReturns(i) ==
    /\ units[i].st = "querying"
    /\ \E result \in (IF units[i].kind = "tile"
                      THEN SingleValueResults
                      ELSE {SeriesResult[r] :
                              r \in TimeSeriesResponses(NumUnits(widgets_config))}) :
          units' = [units EXCEPT ![i] = UnitAfterQuery(units[i], result)]
    /\ UNCHANGED <<widgets_config, aquarium_id, hours, pc, k, available_probes,
                   total_widgets, fence, chan, tx_main, rx, wire, issued, frame,
                   accept_encoding, compress_flag, http_response, body, call>>

\* tasks that send in the order they were spawned
UnitSend_InSpawnOrder(i) ==
    /\ units[i].st = "sending"
    /\ \A j \in 1..(i - 1) : units[j].st = "done"
    /\ CanSend
    /\ chan' = AfterSend(units[i].msg[1])
    /\ units' = [units EXCEPT ![i].st = "done"]
    /\ UNCHANGED <<widgets_config, aquarium_id, hours, pc, k, available_probes,
                   total_widgets, fence, tx_main, rx, wire, issued, frame,
                   accept_encoding, compress_flag, http_response, body, call>>

\* let _ = tx.send(msg).await, then the task ends
UnitSend(i) ==
    /\ units[i].st = "sending"
    /\ CanSend
    /\ chan' = AfterSend(units[i].msg[1])
    /\ units' = [units EXCEPT ![i].st = "done"]
    /\ UNCHANGED <<widgets_config, aquarium_id, hours, pc, k, available_probes,
                   total_widgets, fence, tx_main, rx, wire, issued, frame,
                   accept_encoding, compress_flag, http_response, body, call>>

\* a completion task that waits for every query task to end (a join)
FenceElapse_Join ==
    /\ fence.st = "sleeping"
    /\ \A i \in 1..Len(units) : units[i].st = "done"
    /\ \E d \in Durations :
          fence' = [st |-> "sending", msg |-> Some(CompleteMsg(total_widgets, d))]
    /\ UNCHANGED <<widgets_config, aquarium_id, hours, pc, k, available_probes,
                   total_widgets, units, chan, tx_main, rx, wire, issued, frame,
                   accept_encoding, compress_flag, http_response, body, call>>

\* the completion task wakes from its sleep and builds Complete
FenceElapse ==
    /\ fence.st = "sleeping"
    /\ \E d \in Durations :
          fence' = [st |-> "sending", msg |-> Some(CompleteMsg(total_widgets, d))]
    /\ UNCHANGED <<widgets_config, aquarium_id, hours, pc, k, available_probes,
                   total_widgets, units, chan, tx_main, rx, wire, issued, frame,
                   accept_encoding, compress_flag, http_response, body, call>>

\* let _ = tx_complete.send(msg).await, then the task ends
FenceSend ==
    /\ fence.st = "sending"
    /\ CanSend
    /\ chan' = AfterSend(fence.msg[1])
    /\ fence' = [fence EXCEPT !.st = "done"]
    /\ UNCHANGED <<widgets_config, aquarium_id, hours, pc, k, available_probes,
                   total_widgets, units, tx_main, rx, wire, issued, frame,
                   accept_encoding, compress_flag, http_response, body, call>>

---------------------------------------------------------------------------
(* The consumer: stream_from_receiver *)

\* a channel whose senders are held by the widget tasks only
AllSendersDropped_WidgetsOnly ==
    /\ ~tx_main
    /\ \A i \in UnitIds : units[i].st = "done"

\* every Sender (the original and each task's clone) has been dropped
AllSendersDropped ==
    /\ ~tx_main
    /\ fence.st = "done"
    /\ \A i \in UnitIds : units[i].st = "done"

\* a consumer that is given the messages once every query task has ended
ConsumerRecv_AfterTasksEnd ==
    /\ rx = "open"
    /\ chan # <<>>
    /\ \A i \in UnitIds : units[i].st = "done"
    /\ wire' = Append(wire, Head(chan))
    /\ chan' = Tail(chan)
    /\ UNCHANGED <<widgets_config, aquarium_id, hours, pc, k, available_probes,
                   total_widgets, units, fence, tx_main, rx, issued, frame,
                   accept_encoding, compress_flag, http_response, body, call>>

\* rx.recv() yields the next message, which the response stream writes out
ConsumerRecv ==
    /\ rx = "open"
    /\ chan # <<>>
    /\ wire' = Append(wire, Head(chan))
    /\ chan' = Tail(chan)
    /\ UNCHANGED <<widgets_config, aquarium_id, hours, pc, k, available_probes,
                   total_widgets, units, fence, tx_main, rx, issued, frame,
                   accept_encoding, compress_flag, http_response, body, call>>

\* rx.recv() yields None: the channel is empty and closed, the stream ends
ConsumerEnd ==
    /\ rx = "open"
    /\ chan = <<>>
    /\ AllSendersDropped
    /\ rx' = "ended"
    /\ UNCHANGED <<widgets_config, aquarium_id, hours, pc, k, available_probes,
                   total_widgets, units, fence, chan, tx_main, wire, issued, frame,
                   accept_encoding, compress_flag, http_response, body, call>>

\* the client goes away: the response body and with it the receiver are
\* dropped, which closes the channel and discards what is buffered
ConsumerDisconnect ==
    /\ rx = "open"
    /\ rx' = "dropped"
    /\ chan' = <<>>
    /\ UNCHANGED <<widgets_config, aquarium_id, hours, pc, k, available_probes,
                   total_widgets, units, fence, tx_main, wire, issued, frame,
                   accept_encoding, compress_flag, http_response, body, call>>

---------------------------------------------------------------------------
(* Frame encoder: chunked_thrift.rs                                        *)
(*                                                                         *)
(* Bytes are the integers 0..255. The message is written with the Thrift   *)
(* binary protocol by the code generated for the telemetry_thrift crate:   *)
(* a struct is its present fields, each a type byte, a 16-bit field id and *)
(* the value, then a stop byte. Field ids follow the order of the          *)
(* arguments of each struct's constructor, enum values the order of the    *)
(* variants.                                                               *)

write_byte(b) == <<b % 256>>
write_i16(n) == BigEndian(n, 2)
write_i32(n) == BigEndian(n, 4)
write_i64(n) == BigEndian(n, 8)

\* the code point of a character of the model's strings (all ASCII)
AsciiCode(c) ==
    CASE c = "a" -> 97 [] c = "b" -> 98 [] c = "c" -> 99 [] c = "d" -> 100 [] c = "e" -> 101
      [] c = "f" -> 102 [] c = "g" -> 103 [] c = "h" -> 104 [] c = "i" -> 105 [] c = "j" -> 106
      [] c = "k" -> 107 [] c = "l" -> 108 [] c = "m" -> 109 [] c = "n" -> 110 [] c = "o" -> 111
      [] c = "p" -> 112 [] c = "q" -> 113 [] c = "r" -> 114 [] c = "s" -> 115 [] c = "t" -> 116
      [] c = "u" -> 117 [] c = "v" -> 118 [] c = "w" -> 119 [] c = "x" -> 120 [] c = "y" -> 121
      [] c = "z" -> 122 [] c = "A" -> 65 [] c = "B" -> 66 [] c = "C" -> 67 [] c = "D" -> 68
      [] c = "E" -> 69 [] c = "F" -> 70 [] c = "G" -> 71 [] c = "H" -> 72 [] c = "I" -> 73
      [] c = "J" -> 74 [] c = "K" -> 75 [] c = "L" -> 76 [] c = "M" -> 77 [] c = "N" -> 78
      [] c = "O" -> 79 [] c = "P" -> 80 [] c = "Q" -> 81 [] c = "R" -> 82 [] c = "S" -> 83
      [] c = "T" -> 84 [] c = "U" -> 85 [] c = "V" -> 86 [] c = "W" -> 87 [] c = "X" -> 88
      [] c = "Y" -> 89 [] c = "Z" -> 90 [] c = "_" -> 95

\* the characters of an identifier, title, unit or colour of the catalogs
Chars(str) ==
    CASE str = "temp" -> <<"t", "e", "m", "p">>
      [] str = "Temperature" -> <<"T", "e", "m", "p", "e", "r", "a", "t", "u", "r", "e">>
      [] str = "C" -> <<"C">>
      [] str = "ph" -> <<"p", "h">>
      [] str = "pH" -> <<"p", "H">>
      [] str = "" -> <<>>
      [] str = "salt" -> <<"s", "a", "l", "t">>
      [] str = "Salinity" -> <<"S", "a", "l", "i", "n", "i", "t", "y">>
      [] str = "ppt" -> <<"p", "p", "t">>
      [] str = "s_temp" -> <<"s", "_", "t", "e", "m", "p">>
      [] str = "Temp" -> <<"T", "e", "m", "p">>
      [] str = "red" -> <<"r", "e", "d">>
      [] str = "s_ph" -> <<"s", "_", "p", "h">>
      [] str = "s_orp" -> <<"s", "_", "o", "r", "p">>
      [] str = "ORP" -> <<"O", "R", "P">>
      [] str = "c_env" -> <<"c", "_", "e", "n", "v">>
      [] str = "Environment" -> <<"E", "n", "v", "i", "r", "o", "n", "m", "e", "n", "t">>
      [] str = "c_orp" -> <<"c", "_", "o", "r", "p">>
      [] str = "mV" -> <<"m", "V">>

\* String::as_bytes of a String of the model
as_bytes(chars) == [i \in 1..Len(chars) |-> AsciiCode(chars[i])]

\* write_string: the length as i32, then the bytes
write_string(chars) == write_i32(Len(chars)) \o as_bytes(chars)

\* write_double: the bits of the f64 as an i64, most significant byte first
write_double(value) ==
    <<(IF value.neg THEN 128 ELSE 0) + (value.exp \div 16),
      ((value.exp % 16) * 16) + value.frac[1]>>
    \o SubSeq(value.frac, 2, 7)

\* Thrift binary protocol type codes
TTypeStop == 0
TTypeDouble == 4
TTypeI32 == 8
TTypeI64 == 10
TTypeString == 11
TTypeStruct == 12
TTypeList == 15

\* write_field_begin, the value, write_field_end; nothing for an absent field
write_field(ttype, id, opt, Write(_)) ==
    IF opt = None THEN <<>>
    ELSE write_byte(ttype) \o write_i16(id) \o Write(opt[1])

write_field_stop == write_byte(TTypeStop)

\* the sequences of ss one after another
RECURSIVE Concat(_)
Concat(ss) ==
    IF ss = <<>> THEN <<>>
    ELSE IF Len(ss) = 1 THEN ss[1]
    ELSE Concat(SubSeq(ss, 1, Len(ss) \div 2))
         \o Concat(SubSeq(ss, Len(ss) \div 2 + 1, Len(ss)))

\* write_list_begin and the elements
write_list(elem_type, list, Write(_)) ==
    write_byte(elem_type) \o write_i32(Len(list))
    \o Concat([i \in 1..Len(list) |-> Write(list[i])])

write_id(str) == write_string(Chars(str))

StreamMessageTypeValue(ty) ==
    CASE ty = "SKELETON" -> 0 [] ty = "TILE_UPDATE" -> 1
      [] ty = "CHART_UPDATE" -> 2 [] ty = "COMPLETE" -> 3

ChartKindValue(kind) == CASE kind = "LINE" -> 0 [] kind = "MULTILINE" -> 1

write_TileSkeleton(t) ==
    write_field(TTypeString, 1, t.id, write_id)
    \o write_field(TTypeString, 2, t.title, write_id)
    \o write_field(TTypeString, 3, t.unit, write_id)
    \o write_field(TTypeI32, 4, t.precision, write_i32)
    \o write_field_stop

write_SeriesSkeleton(s) ==
    write_field(TTypeString, 1, s.id, write_id)
    \o write_field(TTypeString, 2, s.name, write_id)
    \o write_field(TTypeString, 3, s.color, write_id)
    \o write_field_stop

write_ChartSkeleton(c) ==
    write_field(TTypeString, 1, c.id, write_id)
    \o write_field(TTypeString, 2, c.title, write_id)
    \o write_field(TTypeString, 3, c.unit, write_id)
    \o write_field(TTypeI32, 4, c.kind, LAMBDA kind : write_i32(ChartKindValue(kind)))
    \o write_field(TTypeDouble, 5, c.y_min, write_double)
    \o write_field(TTypeDouble, 6, c.y_max, write_double)
    \o write_field(TTypeI32, 7, c.fraction_digits, write_i32)
    \o write_field(TTypeList, 8, c.series,
                   LAMBDA l : write_list(TTypeStruct, l, write_SeriesSkeleton))
    \o write_field_stop

write_DashboardSkeleton(sk) ==
    write_field(TTypeString, 1, sk.aquarium_id, write_string)
    \o write_field(TTypeList, 2, sk.tiles,
                   LAMBDA l : write_list(TTypeStruct, l, write_TileSkeleton))
    \o write_field(TTypeList, 3, sk.charts,
                   LAMBDA l : write_list(TTypeStruct, l, write_ChartSkeleton))
    \o write_field_stop

write_TileUpdate(u) ==
    write_field(TTypeString, 1, u.tile_id, write_id)
    \o write_field(TTypeDouble, 2, u.value, write_double)
    \o write_field_stop

write_SDPoint(p) ==
    write_field(TTypeI64, 1, p.t, write_i64)
    \o write_field(TTypeDouble, 2, p.v, write_double)
    \o write_field_stop

write_SeriesUpdate(s) ==
    write_field(TTypeString, 1, s.series_id, write_id)
    \o write_field(TTypeList, 2, s.points,
                   LAMBDA l : write_list(TTypeStruct, l, write_SDPoint))
    \o write_field_stop

write_ChartUpdate(u) ==
    write_field(TTypeString, 1, u.chart_id, write_id)
    \o write_field(TTypeList, 2, u.series,
                   LAMBDA l : write_list(TTypeStruct, l, write_SeriesUpdate))
    \o write_field_stop

write_CompletionEvent(c) ==
    write_field(TTypeI32, 1, c.total_widgets, write_i32)
    \o write_field(TTypeI64, 2, c.duration_ms, write_i64)
    \o write_field_stop

\* StreamMessage::write_to_out_protocol into an empty buffer, then flush
write_to_out_protocol(msg) ==
    write_field(TTypeI32, 1, msg.type, LAMBDA ty : write_i32(StreamMessageTypeValue(ty)))
    \o write_field(TTypeStruct, 2, msg.skeleton, write_DashboardSkeleton)
    \o write_field(TTypeStruct, 3, msg.tile_update, write_TileUpdate)
    \o write_field(TTypeStruct, 4, msg.chart_update, write_ChartUpdate)
    \o write_field(TTypeStruct, 5, msg.complete, write_CompletionEvent)
    \o write_field_stop

\* What BrotliEncoder::new(cursor) followed by read_to_end returns for the
\* serialized messages of the model. The encoder is a library outside the
\* repository; BrotliEncoder::new takes its default level, quality 11 with
\* a window of 2^22 bytes. Each entry is a pair: the bytes of the message
\* named above it, and the Brotli stream the reference encoder (libbrotli
\* 1.0.9) writes at those parameters for these bytes, fed at once and
\* finished.
BrotliReference ==
    {
     \* SkeletonMsg(build_skeleton(Catalog({}, {}, {}), <<"r", "e", "e", "f">>, {}))
     <<<<8, 0, 1, 0, 0, 0, 0, 12, 0, 2, 11, 0, 1, 0, 0, 0, 4, 114, 101, 101,
         102, 15, 0, 2, 12, 0, 0, 0, 0, 15, 0, 3, 12, 0, 0, 0, 0, 0, 0>>,
       <<27, 38, 0, 248, 7, 97, 155, 211, 58, 130, 4, 143, 231, 50, 254, 98,
         164, 64, 0, 142, 128, 146, 87, 96, 255, 153, 215, 178, 160, 173, 2>>>>,
     \* SkeletonMsg(build_skeleton(Catalog({}, {1}, {}), <<"r", "e", "e", "f">>, {ProbeMetadata(<<"T">>, <<"a">>)}))
     <<<<8, 0, 1, 0, 0, 0, 0, 12, 0, 2, 11, 0, 1, 0, 0, 0, 4, 114, 101, 101,
         102, 15, 0, 2, 12, 0, 0, 0, 0, 15, 0, 3, 12, 0, 0, 0, 1, 11, 0, 1, 0,
         0, 0, 5, 99, 95, 101, 110, 118, 11, 0, 2, 0, 0, 0, 11, 69, 110, 118,
         105, 114, 111, 110, 109, 101, 110, 116, 8, 0, 4, 0, 0, 0, 0, 8, 0, 7,
         0, 0, 0, 1, 15, 0, 8, 12, 0, 0, 0, 1, 11, 0, 1, 0, 0, 0, 6, 115, 95,
         116, 101, 109, 112, 11, 0, 2, 0, 0, 0, 4, 84, 101, 109, 112, 11, 0,
         3, 0, 0, 0, 3, 114, 101, 100, 0, 0, 0, 0>>,
       <<27, 126, 0, 224, 143, 212, 96, 205, 156, 35, 17, 180, 185, 123, 181,
         18, 20, 220, 151, 134, 173, 108, 108, 48, 168, 190, 202, 96, 3, 142,
         3, 245, 193, 182, 113, 49, 154, 112, 216, 24, 67, 164, 53, 155, 117,
         91, 5, 116, 169, 9, 148, 117, 62, 67, 234, 48, 228, 142, 104, 2, 219,
         101, 190, 127, 147, 208, 70, 183, 87, 5, 170, 3, 49, 212, 98, 246,
         207, 55, 20, 151, 83, 114, 243, 122, 3>>>>,
     \* SkeletonMsg(build_skeleton(Catalog({}, {2}, {}), <<"r", "e", "e", "f">>, {ProbeMetadata(<<"P">>, <<"b">>)}))
     <<<<8, 0, 1, 0, 0, 0, 0, 12, 0, 2, 11, 0, 1, 0, 0, 0, 4, 114, 101, 101,
         102, 15, 0, 2, 12, 0, 0, 0, 0, 15, 0, 3, 12, 0, 0, 0, 1, 11, 0, 1, 0,
         0, 0, 5, 99, 95, 101, 110, 118, 11, 0, 2, 0, 0, 0, 11, 69, 110, 118,
         105, 114, 111, 110, 109, 101, 110, 116, 8, 0, 4, 0, 0, 0, 0, 8, 0, 7,
         0, 0, 0, 1, 15, 0, 8, 12, 0, 0, 0, 1, 11, 0, 1, 0, 0, 0, 4, 115, 95,
         112, 104, 11, 0, 2, 0, 0, 0, 2, 112, 72, 0, 0, 0, 0>>,
       <<27, 112, 0, 248, 143, 212, 96, 205, 156, 35, 17, 180, 185, 251, 207,
         72, 80, 112, 88, 134, 48, 154, 66, 10, 202, 47, 164, 178, 246, 132,
         21, 164, 208, 210, 4, 12, 241, 204, 75, 182, 85, 64, 151, 77, 160,
         188, 207, 107, 200, 14, 195, 214, 17, 77, 96, 63, 205, 231, 111, 18,
         45, 210, 171, 2, 213, 129, 24, 170, 150, 207, 186, 33, 87, 255, 21>>>>,
     \* SkeletonMsg(build_skeleton(Catalog({}, {1, 2}, {}), <<"r", "e", "e", "f">>, {ProbeMetadata(<<"T">>, <<"a">>), ProbeMetadata(<<"P">>, <<"b">>)}))
     <<<<8, 0, 1, 0, 0, 0, 0, 12, 0, 2, 11, 0, 1, 0, 0, 0, 4, 114, 101, 101,
         102, 15, 0, 2, 12, 0, 0, 0, 0, 15, 0, 3, 12, 0, 0, 0, 1, 11, 0, 1, 0,
         0, 0, 5, 99, 95, 101, 110, 118, 11, 0, 2, 0, 0, 0, 11, 69, 110, 118,
         105, 114, 111, 110, 109, 101, 110, 116, 8, 0, 4, 0, 0, 0, 0, 8, 0, 7,
         0, 0, 0, 1, 15, 0, 8, 12, 0, 0, 0, 2, 11, 0, 1, 0, 0, 0, 6, 115, 95,
         116, 101, 109, 112, 11, 0, 2, 0, 0, 0, 4, 84, 101, 109, 112, 11, 0,
         3, 0, 0, 0, 3, 114, 101, 100, 0, 11, 0, 1, 0, 0, 0, 4, 115, 95, 112,
         104, 11, 0, 2, 0, 0, 0, 2, 112, 72, 0, 0, 0, 0>>,
       <<27, 147, 0, 104, 31, 9, 54, 46, 242, 153, 251, 104, 36, 130, 166,
         178, 251, 79, 90, 3, 31, 200, 190, 56, 108, 90, 113, 146, 210, 130,
         1, 144, 95, 72, 101, 176, 1, 199, 9, 232, 224, 3, 237, 182, 192, 0,
         60, 108, 140, 129, 115, 74, 237, 186, 29, 2, 166, 172, 64, 191, 62,
         62, 43, 39, 150, 54, 137, 10, 108, 47, 199, 239, 95, 137, 26, 110,
         26, 29, 134, 7, 98, 141, 73, 208, 126, 59, 35, 42, 209, 159, 208,
         220, 174, 223, 26, 253, 118, 126, 43, 145, 103, 121>>>>,
     \* SkeletonMsg(build_skeleton(Catalog({1}, {}, {}), <<"r", "e", "e", "f">>, {ProbeMetadata(<<"T">>, <<"a">>)}))
     <<<<8, 0, 1, 0, 0, 0, 0, 12, 0, 2, 11, 0, 1, 0, 0, 0, 4, 114, 101, 101,
         102, 15, 0, 2, 12, 0, 0, 0, 1, 11, 0, 1, 0, 0, 0, 4, 116, 101, 109,
         112, 11, 0, 2, 0, 0, 0, 11, 84, 101, 109, 112, 101, 114, 97, 116,
         117, 114, 101, 11, 0, 3, 0, 0, 0, 1, 67, 8, 0, 4, 0, 0, 0, 1, 0, 15,
         0, 3, 12, 0, 0, 0, 0, 0, 0>>,
       <<27, 83, 0, 248, 135, 160, 185, 221, 255, 62, 12, 126, 176, 26, 76,
         121, 54, 65, 196, 154, 8, 172, 66, 32, 161, 125, 10, 88, 178, 5, 234,
         59, 231, 222, 114, 33, 90, 160, 254, 243, 188, 45, 209, 251, 88, 27,
         136, 107, 42, 132, 109, 44, 0>>>>,
     \* SkeletonMsg(build_skeleton(Catalog({1}, {1}, {}), <<"r", "e", "e", "f">>, {ProbeMetadata(<<"T">>, <<"a">>)}))
     <<<<8, 0, 1, 0, 0, 0, 0, 12, 0, 2, 11, 0, 1, 0, 0, 0, 4, 114, 101, 101,
         102, 15, 0, 2, 12, 0, 0, 0, 1, 11, 0, 1, 0, 0, 0, 4, 116, 101, 109,
         112, 11, 0, 2, 0, 0, 0, 11, 84, 101, 109, 112, 101, 114, 97, 116,
         117, 114, 101, 11, 0, 3, 0, 0, 0, 1, 67, 8, 0, 4, 0, 0, 0, 1, 0, 15,
         0, 3, 12, 0, 0, 0, 1, 11, 0, 1, 0, 0, 0, 5, 99, 95, 101, 110, 118,
         11, 0, 2, 0, 0, 0, 11, 69, 110, 118, 105, 114, 111, 110, 109, 101,
         110, 116, 8, 0, 4, 0, 0, 0, 0, 8, 0, 7, 0, 0, 0, 1, 15, 0, 8, 12, 0,
         0, 0, 1, 11, 0, 1, 0, 0, 0, 6, 115, 95, 116, 101, 109, 112, 11, 0, 2,
         0, 0, 0, 4, 84, 101, 109, 112, 11, 0, 3, 0, 0, 0, 3, 114, 101, 100,
         0, 0, 0, 0>>,
       <<27, 171, 0, 0, 31, 9, 54, 46, 242, 153, 251, 104, 36, 130, 212, 177,
         251, 246, 129, 38, 79, 210, 117, 96, 26, 17, 55, 141, 65, 99, 0, 100,
         217, 23, 130, 7, 220, 155, 123, 111, 210, 181, 47, 41, 18, 120, 200,
         194, 71, 169, 166, 136, 222, 135, 128, 93, 171, 64, 222, 174, 231,
         108, 59, 81, 129, 252, 121, 125, 170, 161, 222, 67, 203, 234, 136,
         163, 68, 152, 122, 128, 150, 243, 235, 253, 151, 14, 181, 31, 9, 195,
         134, 152, 195, 182, 126, 175, 65, 134, 234, 232, 183, 7>>>>,
     \* SkeletonMsg(build_skeleton(Catalog({1}, {2}, {}), <<"r", "e", "e", "f">>, {ProbeMetadata(<<"T">>, <<"a">>), ProbeMetadata(<<"P">>, <<"b">>)}))
     <<<<8, 0, 1, 0, 0, 0, 0, 12, 0, 2, 11, 0, 1, 0, 0, 0, 4, 114, 101, 101,
         102, 15, 0, 2, 12, 0, 0, 0, 1, 11, 0, 1, 0, 0, 0, 4, 116, 101, 109,
         112, 11, 0, 2, 0, 0, 0, 11, 84, 101, 109, 112, 101, 114, 97, 116,
         117, 114, 101, 11, 0, 3, 0, 0, 0, 1, 67, 8, 0, 4, 0, 0, 0, 1, 0, 15,
         0, 3, 12, 0, 0, 0, 1, 11, 0, 1, 0, 0, 0, 5, 99, 95, 101, 110, 118,
         11, 0, 2, 0, 0, 0, 11, 69, 110, 118, 105, 114, 111, 110, 109, 101,
         110, 116, 8, 0, 4, 0, 0, 0, 0, 8, 0, 7, 0, 0, 0, 1, 15, 0, 8, 12, 0,
         0, 0, 1, 11, 0, 1, 0, 0, 0, 4, 115, 95, 112, 104, 11, 0, 2, 0, 0, 0,
         2, 112, 72, 0, 0, 0, 0>>,
       <<27, 157, 0, 0, 143, 212, 96, 205, 156, 35, 17, 56, 29, 93, 106, 197,
         66, 132, 174, 131, 211, 40, 138, 139, 82, 244, 249, 70, 64, 250, 42,
         3, 27, 112, 38, 129, 210, 226, 251, 224, 186, 13, 56, 56, 228, 232,
         194, 95, 65, 216, 123, 19, 176, 42, 41, 80, 223, 143, 179, 43, 43,
         34, 5, 234, 239, 123, 164, 130, 124, 15, 45, 211, 132, 216, 80, 17,
         186, 73, 176, 121, 239, 120, 254, 228, 80, 187, 166, 66, 179, 32,
         186, 22, 194, 215, 184, 84, 134, 149, 0>>>>,
     \* SkeletonMsg(build_skeleton(Catalog({1}, {1, 2}, {}), <<"r", "e", "e", "f">>, {ProbeMetadata(<<"T">>, <<"a">>), ProbeMetadata(<<"P">>, <<"b">>)}))
     <<<<8, 0, 1, 0, 0, 0, 0, 12, 0, 2, 11, 0, 1, 0, 0, 0, 4, 114, 101, 101,
         102, 15, 0, 2, 12, 0, 0, 0, 1, 11, 0, 1, 0, 0, 0, 4, 116, 101, 109,
         112, 11, 0, 2, 0, 0, 0, 11, 84, 101, 109, 112, 101, 114, 97, 116,
         117, 114, 101, 11, 0, 3, 0, 0, 0, 1, 67, 8, 0, 4, 0, 0, 0, 1, 0, 15,
         0, 3, 12, 0, 0, 0, 1, 11, 0, 1, 0, 0, 0, 5, 99, 95, 101, 110, 118,
         11, 0, 2, 0, 0, 0, 11, 69, 110, 118, 105, 114, 111, 110, 109, 101,
         110, 116, 8, 0, 4, 0, 0, 0, 0, 8, 0, 7, 0, 0, 0, 1, 15, 0, 8, 12, 0,
         0, 0, 2, 11, 0, 1, 0, 0, 0, 6, 115, 95, 116, 101, 109, 112, 11, 0, 2,
         0, 0, 0, 4, 84, 101, 109, 112, 11, 0, 3, 0, 0, 0, 3, 114, 101, 100,
         0, 11, 0, 1, 0, 0, 0, 4, 115, 95, 112, 104, 11, 0, 2, 0, 0, 0, 2,
         112, 72, 0, 0, 0, 0>>,
       <<27, 192, 0, 88, 158, 9, 118, 76, 29, 3, 147, 63, 150, 68, 180, 201,
         238, 213, 45, 161, 32, 40, 183, 93, 20, 126, 176, 26, 76, 81, 39, 22,
         101, 168, 24, 0, 253, 85, 134, 128, 212, 13, 206, 19, 14, 148, 18,
         207, 115, 201, 61, 28, 135, 13, 56, 10, 109, 90, 167, 197, 103, 249,
         251, 18, 240, 81, 10, 204, 41, 134, 151, 17, 5, 230, 181, 82, 5, 239,
         21, 45, 213, 144, 186, 129, 240, 211, 194, 78, 19, 251, 147, 187, 87,
         101, 192, 242, 64, 124, 141, 82, 224, 94, 30, 211, 212, 208, 167, 78,
         198, 43, 167, 42, 223, 0>>>>,
     \* SkeletonMsg(build_skeleton(Catalog({2}, {}, {}), <<"r", "e", "e", "f">>, {ProbeMetadata(<<"P">>, <<"b">>)}))
     <<<<8, 0, 1, 0, 0, 0, 0, 12, 0, 2, 11, 0, 1, 0, 0, 0, 4, 114, 101, 101,
         102, 15, 0, 2, 12, 0, 0, 0, 1, 11, 0, 1, 0, 0, 0, 2, 112, 104, 11, 0,
         2, 0, 0, 0, 2, 112, 72, 11, 0, 3, 0, 0, 0, 0, 8, 0, 4, 0, 0, 0, 2, 0,
         15, 0, 3, 12, 0, 0, 0, 0, 0, 0>>,
       <<27, 71, 0, 248, 135, 192, 109, 221, 166, 65, 216, 192, 90, 63, 21,
         159, 143, 242, 49, 83, 32, 16, 150, 128, 150, 37, 48, 255, 115, 222,
         45, 27, 81, 2, 121, 191, 146, 200, 251, 148, 1, 203, 68, 218, 70, 3>>>>,
     \* SkeletonMsg(build_skeleton(Catalog({2}, {1}, {}), <<"r", "e", "e", "f">>, {ProbeMetadata(<<"T">>, <<"a">>), ProbeMetadata(<<"P">>, <<"b">>)}))
     <<<<8, 0, 1, 0, 0, 0, 0, 12, 0, 2, 11, 0, 1, 0, 0, 0, 4, 114, 101, 101,
         102, 15, 0, 2, 12, 0, 0, 0, 1, 11, 0, 1, 0, 0, 0, 2, 112, 104, 11, 0,
         2, 0, 0, 0, 2, 112, 72, 11, 0, 3, 0, 0, 0, 0, 8, 0, 4, 0, 0, 0, 2, 0,
         15, 0, 3, 12, 0, 0, 0, 1, 11, 0, 1, 0, 0, 0, 5, 99, 95, 101, 110,
         118, 11, 0, 2, 0, 0, 0, 11, 69, 110, 118, 105, 114, 111, 110, 109,
         101, 110, 116, 8, 0, 4, 0, 0, 0, 0, 8, 0, 7, 0, 0, 0, 1, 15, 0, 8,
         12, 0, 0, 0, 1, 11, 0, 1, 0, 0, 0, 6, 115, 95, 116, 101, 109, 112,
         11, 0, 2, 0, 0, 0, 4, 84, 101, 109, 112, 11, 0, 3, 0, 0, 0, 3, 114,
         101, 100, 0, 0, 0, 0>>,
       <<27, 159, 0, 0, 142, 212, 96, 205, 156, 35, 17, 52, 29, 222, 127, 162,
         6, 94, 200, 190, 56, 108, 106, 199, 34, 22, 218, 72, 95, 101, 104,
         220, 224, 56, 80, 15, 44, 11, 3, 78, 32, 80, 220, 112, 207, 97, 14,
         201, 173, 248, 182, 255, 67, 192, 46, 75, 160, 191, 221, 159, 41,
         119, 68, 9, 228, 115, 73, 228, 67, 105, 48, 116, 164, 169, 149, 107,
         57, 189, 191, 127, 111, 29, 41, 117, 53, 108, 136, 105, 236, 188,
         254, 252, 37, 82, 253, 136, 104, 105, 111, 23, 0>>>>,
     \* SkeletonMsg(build_skeleton(Catalog({2}, {2}, {}), <<"r", "e", "e", "f">>, {ProbeMetadata(<<"P">>, <<"b">>)}))
     <<<<8, 0, 1, 0, 0, 0, 0, 12, 0, 2, 11, 0, 1, 0, 0, 0, 4, 114, 101, 101,
         102, 15, 0, 2, 12, 0, 0, 0, 1, 11, 0, 1, 0, 0, 0, 2, 112, 104, 11, 0,
         2, 0, 0, 0, 2, 112, 72, 11, 0, 3, 0, 0, 0, 0, 8, 0, 4, 0, 0, 0, 2, 0,
         15, 0, 3, 12, 0, 0, 0, 1, 11, 0, 1, 0, 0, 0, 5, 99, 95, 101, 110,
         118, 11, 0, 2, 0, 0, 0, 11, 69, 110, 118, 105, 114, 111, 110, 109,
         101, 110, 116, 8, 0, 4, 0, 0, 0, 0, 8, 0, 7, 0, 0, 0, 1, 15, 0, 8,
         12, 0, 0, 0, 1, 11, 0, 1, 0, 0, 0, 4, 115, 95, 112, 104, 11, 0, 2, 0,
         0, 0, 2, 112, 72, 0, 0, 0, 0>>,
       <<27, 145, 0, 224, 142, 212, 96, 205, 156, 35, 33, 56, 93, 90, 39, 14,
         42, 236, 120, 14, 81, 188, 100, 40, 216, 72, 95, 101, 104, 96, 3, 14,
         92, 18, 26, 120, 92, 96, 80, 220, 112, 240, 24, 62, 43, 121, 14, 202,
         225, 191, 11, 216, 101, 9, 180, 183, 243, 26, 114, 71, 148, 64, 206,
         75, 34, 39, 101, 129, 174, 33, 13, 75, 42, 214, 195, 243, 249, 221,
         245, 78, 180, 234, 54, 196, 208, 11, 110, 159, 243, 70, 57, 217, 1>>>>,
     \* SkeletonMsg(build_skeleton(Catalog({2}, {1, 2}, {}), <<"r", "e", "e", "f">>, {ProbeMetadata(<<"T">>, <<"a">>), ProbeMetadata(<<"P">>, <<"b">>)}))
     <<<<8, 0, 1, 0, 0, 0, 0, 12, 0, 2, 11, 0, 1, 0, 0, 0, 4, 114, 101, 101,
         102, 15, 0, 2, 12, 0, 0, 0, 1, 11, 0, 1, 0, 0, 0, 2, 112, 104, 11, 0,
         2, 0, 0, 0, 2, 112, 72, 11, 0, 3, 0, 0, 0, 0, 8, 0, 4, 0, 0, 0, 2, 0,
         15, 0, 3, 12, 0, 0, 0, 1, 11, 0, 1, 0, 0, 0, 5, 99, 95, 101, 110,
         118, 11, 0, 2, 0, 0, 0, 11, 69, 110, 118, 105, 114, 111, 110, 109,
         101, 110, 116, 8, 0, 4, 0, 0, 0, 0, 8, 0, 7, 0, 0, 0, 1, 15, 0, 8,
         12, 0, 0, 0, 2, 11, 0, 1, 0, 0, 0, 6, 115, 95, 116, 101, 109, 112,
         11, 0, 2, 0, 0, 0, 4, 84, 101, 109, 112, 11, 0, 3, 0, 0, 0, 3, 114,
         101, 100, 0, 11, 0, 1, 0, 0, 0, 4, 115, 95, 112, 104, 11, 0, 2, 0, 0,
         0, 2, 112, 72, 0, 0, 0, 0>>,
       <<27, 180, 0, 200, 142, 212, 96, 205, 156, 35, 17, 52, 149, 221, 127,
         82, 13, 124, 32, 251, 226, 176, 105, 221, 148, 210, 138, 253, 85,
         134, 132, 214, 49, 142, 7, 213, 27, 113, 129, 65, 124, 147, 9, 135,
         29, 176, 25, 227, 218, 158, 235, 127, 8, 152, 178, 4, 250, 217, 254,
         94, 114, 34, 74, 32, 143, 151, 68, 30, 43, 13, 134, 142, 180, 180,
         202, 182, 167, 253, 251, 119, 214, 157, 162, 99, 184, 35, 150, 49,
         145, 37, 112, 187, 252, 246, 207, 81, 18, 253, 17, 180, 177, 157,
         189, 148, 64, 191, 204, 41>>>>,
     \* SkeletonMsg(build_skeleton(Catalog({3}, {}, {}), <<"r", "e", "e", "f">>, {}))
     <<<<8, 0, 1, 0, 0, 0, 0, 12, 0, 2, 11, 0, 1, 0, 0, 0, 4, 114, 101, 101,
         102, 15, 0, 2, 12, 0, 0, 0, 1, 11, 0, 1, 0, 0, 0, 4, 115, 97, 108,
         116, 11, 0, 2, 0, 0, 0, 8, 83, 97, 108, 105, 110, 105, 116, 121, 11,
         0, 3, 0, 0, 0, 3, 112, 112, 116, 8, 0, 4, 0, 0, 0, 1, 0, 15, 0, 3,
         12, 0, 0, 0, 0, 0, 0>>,
       <<27, 82, 0, 248, 135, 160, 205, 221, 171, 131, 160, 224, 62, 52, 76,
         14, 5, 65, 68, 148, 75, 49, 83, 32, 192, 170, 128, 46, 53, 129, 242,
         238, 251, 49, 164, 142, 104, 2, 229, 155, 215, 106, 18, 234, 54, 175,
         243, 62, 215, 223, 100, 228, 231, 89, 85, 65, 24, 114, 7>>>>,
     \* SkeletonMsg(build_skeleton(Catalog({3}, {1}, {}), <<"r", "e", "e", "f">>, {ProbeMetadata(<<"T">>, <<"a">>)}))
     <<<<8, 0, 1, 0, 0, 0, 0, 12, 0, 2, 11, 0, 1, 0, 0, 0, 4, 114, 101, 101,
         102, 15, 0, 2, 12, 0, 0, 0, 1, 11, 0, 1, 0, 0, 0, 4, 115, 97, 108,
         116, 11, 0, 2, 0, 0, 0, 8, 83, 97, 108, 105, 110, 105, 116, 121, 11,
         0, 3, 0, 0, 0, 3, 112, 112, 116, 8, 0, 4, 0, 0, 0, 1, 0, 15, 0, 3,
         12, 0, 0, 0, 1, 11, 0, 1, 0, 0, 0, 5, 99, 95, 101, 110, 118, 11, 0,
         2, 0, 0, 0, 11, 69, 110, 118, 105, 114, 111, 110, 109, 101, 110, 116,
         8, 0, 4, 0, 0, 0, 0, 8, 0, 7, 0, 0, 0, 1, 15, 0, 8, 12, 0, 0, 0, 1,
         11, 0, 1, 0, 0, 0, 6, 115, 95, 116, 101, 109, 112, 11, 0, 2, 0, 0, 0,
         4, 84, 101, 109, 112, 11, 0, 3, 0, 0, 0, 3, 114, 101, 100, 0, 0, 0, 0>>,
       <<27, 170, 0, 72, 142, 148, 171, 225, 110, 224, 220, 230, 181, 18, 10,
         130, 104, 231, 141, 234, 149, 125, 96, 151, 120, 165, 36, 241, 41,
         110, 112, 28, 168, 7, 150, 133, 1, 39, 16, 224, 34, 56, 56, 228, 118,
         8, 52, 61, 80, 189, 90, 4, 240, 24, 65, 64, 142, 106, 15, 140, 7, 36,
         8, 200, 45, 211, 132, 1, 26, 203, 28, 107, 216, 23, 12, 120, 111,
         115, 4, 16, 31, 187, 90, 53, 235, 122, 217, 187, 43, 69, 40, 135, 27,
         168, 243, 190, 249, 43, 162, 164, 134, 227, 163, 13>>>>,
     \* SkeletonMsg(build_skeleton(Catalog({3}, {2}, {}), <<"r", "e", "e", "f">>, {ProbeMetadata(<<"P">>, <<"b">>)}))
     <<<<8, 0, 1, 0, 0, 0, 0, 12, 0, 2, 11, 0, 1, 0, 0, 0, 4, 114, 101, 101,
         102, 15, 0, 2, 12, 0, 0, 0, 1, 11, 0, 1, 0, 0, 0, 4, 115, 97, 108,
         116, 11, 0, 2, 0, 0, 0, 8, 83, 97, 108, 105, 110, 105, 116, 121, 11,
         0, 3, 0, 0, 0, 3, 112, 112, 116, 8, 0, 4, 0, 0, 0, 1, 0, 15, 0, 3,
         12, 0, 0, 0, 1, 11, 0, 1, 0, 0, 0, 5, 99, 95, 101, 110, 118, 11, 0,
         2, 0, 0, 0, 11, 69, 110, 118, 105, 114, 111, 110, 109, 101, 110, 116,
         8, 0, 4, 0, 0, 0, 0, 8, 0, 7, 0, 0, 0, 1, 15, 0, 8, 12, 0, 0, 0, 1,
         11, 0, 1, 0, 0, 0, 4, 115, 95, 112, 104, 11, 0, 2, 0, 0, 0, 2, 112,
         72, 0, 0, 0, 0>>,
       <<27, 156, 0, 224, 142, 148, 238, 2, 221, 102, 132, 74, 39, 218, 134,
         247, 106, 36, 52, 24, 60, 221, 252, 55, 198, 69, 235, 218, 158, 61,
         201, 165, 72, 78, 157, 207, 247, 128, 123, 209, 38, 196, 181, 105,
         19, 98, 205, 156, 8, 117, 193, 3, 42, 185, 186, 4, 124, 148, 8, 204,
         85, 29, 73, 69, 68, 4, 230, 181, 237, 162, 96, 75, 219, 235, 44, 255,
         69, 67, 155, 121, 48, 16, 126, 90, 136, 211, 171, 158, 143, 126, 163,
         106, 48, 0, 119, 147, 141, 176, 218, 116, 89, 150, 0>>>>,
     \* SkeletonMsg(build_skeleton(Catalog({3}, {1, 2}, {}), <<"r", "e", "e", "f">>, {ProbeMetadata(<<"T">>, <<"a">>), ProbeMetadata(<<"P">>, <<"b">>)}))
     <<<<8, 0, 1, 0, 0, 0, 0, 12, 0, 2, 11, 0, 1, 0, 0, 0, 4, 114, 101, 101,
         102, 15, 0, 2, 12, 0, 0, 0, 1, 11, 0, 1, 0, 0, 0, 4, 115, 97, 108,
         116, 11, 0, 2, 0, 0, 0, 8, 83, 97, 108, 105, 110, 105, 116, 121, 11,
         0, 3, 0, 0, 0, 3, 112, 112, 116, 8, 0, 4, 0, 0, 0, 1, 0, 15, 0, 3,
         12, 0, 0, 0, 1, 11, 0, 1, 0, 0, 0, 5, 99, 95, 101, 110, 118, 11, 0,
         2, 0, 0, 0, 11, 69, 110, 118, 105, 114, 111, 110, 109, 101, 110, 116,
         8, 0, 4, 0, 0, 0, 0, 8, 0, 7, 0, 0, 0, 1, 15, 0, 8, 12, 0, 0, 0, 2,
         11, 0, 1, 0, 0, 0, 6, 115, 95, 116, 101, 109, 112, 11, 0, 2, 0, 0, 0,
         4, 84, 101, 109, 112, 11, 0, 3, 0, 0, 0, 3, 114, 101, 100, 0, 11, 0,
         1, 0, 0, 0, 4, 115, 95, 112, 104, 11, 0, 2, 0, 0, 0, 2, 112, 72, 0,
         0, 0, 0>>,
       <<27, 191, 0, 40, 143, 148, 238, 2, 221, 38, 162, 77, 118, 175, 110, 9,
         5, 65, 184, 181, 123, 10, 19, 252, 126, 253, 215, 127, 72, 45, 18,
         68, 134, 142, 32, 157, 28, 255, 11, 48, 129, 0, 48, 8, 44, 187, 64,
         148, 64, 98, 24, 56, 228, 118, 72, 36, 208, 44, 173, 87, 151, 128,
         143, 18, 129, 89, 102, 79, 81, 25, 17, 129, 217, 109, 132, 40, 216,
         163, 141, 62, 123, 252, 162, 161, 221, 35, 25, 8, 63, 29, 174, 115,
         169, 205, 79, 247, 29, 52, 38, 3, 248, 36, 92, 43, 221, 173, 39, 21,
         61, 167, 209, 211, 203, 110, 10, 92, 253, 85, 121, 237, 5>>>>,
     \* SkeletonMsg(build_skeleton(Catalog({1, 2}, {}, {}), <<"r", "e", "e", "f">>, {ProbeMetadata(<<"T">>, <<"a">>), ProbeMetadata(<<"P">>, <<"b">>)}))
     <<<<8, 0, 1, 0, 0, 0, 0, 12, 0, 2, 11, 0, 1, 0, 0, 0, 4, 114, 101, 101,
         102, 15, 0, 2, 12, 0, 0, 0, 2, 11, 0, 1, 0, 0, 0, 4, 116, 101, 109,
         112, 11, 0, 2, 0, 0, 0, 11, 84, 101, 109, 112, 101, 114, 97, 116,
         117, 114, 101, 11, 0, 3, 0, 0, 0, 1, 67, 8, 0, 4, 0, 0, 0, 1, 0, 11,
         0, 1, 0, 0, 0, 2, 112, 104, 11, 0, 2, 0, 0, 0, 2, 112, 72, 11, 0, 3,
         0, 0, 0, 0, 8, 0, 4, 0, 0, 0, 2, 0, 15, 0, 3, 12, 0, 0, 0, 0, 0, 0>>,
       <<27, 116, 0, 248, 135, 160, 109, 222, 191, 6, 225, 5, 107, 176, 44,
         21, 199, 162, 12, 38, 114, 26, 40, 7, 68, 177, 125, 254, 118, 64, 4,
         100, 18, 178, 12, 1, 83, 150, 64, 255, 207, 121, 151, 156, 104, 146,
         42, 234, 62, 167, 210, 16, 123, 232, 8, 37, 144, 247, 43, 137, 188,
         79, 105, 48, 116, 164, 165, 77, 0>>>>,
     \* SkeletonMsg(build_skeleton(Catalog({1, 2}, {1}, {}), <<"r", "e", "e", "f">>, {ProbeMetadata(<<"T">>, <<"a">>), ProbeMetadata(<<"P">>, <<"b">>)}))
     <<<<8, 0, 1, 0, 0, 0, 0, 12, 0, 2, 11, 0, 1, 0, 0, 0, 4, 114, 101, 101,
         102, 15, 0, 2, 12, 0, 0, 0, 2, 11, 0, 1, 0, 0, 0, 4, 116, 101, 109,
         112, 11, 0, 2, 0, 0, 0, 11, 84, 101, 109, 112, 101, 114, 97, 116,
         117, 114, 101, 11, 0, 3, 0, 0, 0, 1, 67, 8, 0, 4, 0, 0, 0, 1, 0, 11,
         0, 1, 0, 0, 0, 2, 112, 104, 11, 0, 2, 0, 0, 0, 2, 112, 72, 11, 0, 3,
         0, 0, 0, 0, 8, 0, 4, 0, 0, 0, 2, 0, 15, 0, 3, 12, 0, 0, 0, 1, 11, 0,
         1, 0, 0, 0, 5, 99, 95, 101, 110, 118, 11, 0, 2, 0, 0, 0, 11, 69, 110,
         118, 105, 114, 111, 110, 109, 101, 110, 116, 8, 0, 4, 0, 0, 0, 0, 8,
         0, 7, 0, 0, 0, 1, 15, 0, 8, 12, 0, 0, 0, 1, 11, 0, 1, 0, 0, 0, 6,
         115, 95, 116, 101, 109, 112, 11, 0, 2, 0, 0, 0, 4, 84, 101, 109, 112,
         11, 0, 3, 0, 0, 0, 3, 114, 101, 100, 0, 0, 0, 0>>,
       <<27, 204, 0, 40, 135, 160, 169, 236, 254, 19, 53, 240, 129, 174, 131,
         139, 203, 214, 65, 35, 78, 82, 42, 232, 148, 211, 22, 40, 6, 66, 97,
         196, 145, 100, 122, 195, 131, 67, 110, 126, 177, 52, 204, 10, 176,
         101, 8, 152, 178, 4, 250, 185, 214, 123, 147, 19, 81, 223, 168, 68,
         125, 67, 175, 150, 134, 184, 15, 29, 161, 4, 242, 248, 148, 68, 30,
         143, 210, 96, 232, 72, 155, 54, 17, 37, 112, 121, 238, 235, 251, 47,
         137, 90, 248, 62, 116, 24, 110, 136, 205, 48, 237, 250, 219, 3, 216,
         75, 105, 104, 231, 122, 1>>>>,
     \* SkeletonMsg(build_skeleton(Catalog({1, 2}, {2}, {}), <<"r", "e", "e", "f">>, {ProbeMetadata(<<"T">>, <<"a">>), ProbeMetadata(<<"P">>, <<"b">>)}))
     <<<<8, 0, 1, 0, 0, 0, 0, 12, 0, 2, 11, 0, 1, 0, 0, 0, 4, 114, 101, 101,
         102, 15, 0, 2, 12, 0, 0, 0, 2, 11, 0, 1, 0, 0, 0, 4, 116, 101, 109,
         112, 11, 0, 2, 0, 0, 0, 11, 84, 101, 109, 112, 101, 114, 97, 116,
         117, 114, 101, 11, 0, 3, 0, 0, 0, 1, 67, 8, 0, 4, 0, 0, 0, 1, 0, 11,
         0, 1, 0, 0, 0, 2, 112, 104, 11, 0, 2, 0, 0, 0, 2, 112, 72, 11, 0, 3,
         0, 0, 0, 0, 8, 0, 4, 0, 0, 0, 2, 0, 15, 0, 3, 12, 0, 0, 0, 1, 11, 0,
         1, 0, 0, 0, 5, 99, 95, 101, 110, 118, 11, 0, 2, 0, 0, 0, 11, 69, 110,
         118, 105, 114, 111, 110, 109, 101, 110, 116, 8, 0, 4, 0, 0, 0, 0, 8,
         0, 7, 0, 0, 0, 1, 15, 0, 8, 12, 0, 0, 0, 1, 11, 0, 1, 0, 0, 0, 4,
         115, 95, 112, 104, 11, 0, 2, 0, 0, 0, 2, 112, 72, 0, 0, 0, 0>>,
       <<27, 190, 0, 40, 135, 160, 169, 236, 254, 147, 98, 224, 3, 93, 7, 151,
         46, 91, 7, 169, 116, 146, 160, 160, 7, 220, 138, 109, 147, 162, 109,
         232, 115, 235, 18, 108, 192, 73, 68, 235, 184, 61, 224, 205, 16, 48,
         101, 9, 244, 239, 117, 189, 119, 57, 17, 246, 141, 74, 212, 55, 116,
         181, 52, 196, 115, 232, 8, 37, 144, 235, 46, 137, 92, 71, 105, 48,
         116, 164, 93, 155, 136, 18, 216, 94, 231, 245, 249, 151, 68, 45, 188,
         15, 29, 134, 7, 98, 55, 76, 247, 223, 185, 110, 148, 235, 136, 5>>>>,
     \* SkeletonMsg(build_skeleton(Catalog({1, 2}, {1, 2}, {}), <<"r", "e", "e", "f">>, {ProbeMetadata(<<"T">>, <<"a">>), ProbeMetadata(<<"P">>, <<"b">>)}))
     <<<<8, 0, 1, 0, 0, 0, 0, 12, 0, 2, 11, 0, 1, 0, 0, 0, 4, 114, 101, 101,
         102, 15, 0, 2, 12, 0, 0, 0, 2, 11, 0, 1, 0, 0, 0, 4, 116, 101, 109,
         112, 11, 0, 2, 0, 0, 0, 11, 84, 101, 109, 112, 101, 114, 97, 116,
         117, 114, 101, 11, 0, 3, 0, 0, 0, 1, 67, 8, 0, 4, 0, 0, 0, 1, 0, 11,
         0, 1, 0, 0, 0, 2, 112, 104, 11, 0, 2, 0, 0, 0, 2, 112, 72, 11, 0, 3,
         0, 0, 0, 0, 8, 0, 4, 0, 0, 0, 2, 0, 15, 0, 3, 12, 0, 0, 0, 1, 11, 0,
         1, 0, 0, 0, 5, 99, 95, 101, 110, 118, 11, 0, 2, 0, 0, 0, 11, 69, 110,
         118, 105, 114, 111, 110, 109, 101, 110, 116, 8, 0, 4, 0, 0, 0, 0, 8,
         0, 7, 0, 0, 0, 1, 15, 0, 8, 12, 0, 0, 0, 2, 11, 0, 1, 0, 0, 0, 6,
         115, 95, 116, 101, 109, 112, 11, 0, 2, 0, 0, 0, 4, 84, 101, 109, 112,
         11, 0, 3, 0, 0, 0, 3, 114, 101, 100, 0, 11, 0, 1, 0, 0, 0, 4, 115,
         95, 112, 104, 11, 0, 2, 0, 0, 0, 2, 112, 72, 0, 0, 0, 0>>,
       <<27, 225, 0, 160, 142, 148, 238, 2, 221, 38, 162, 13, 134, 247, 106,
         37, 56, 24, 17, 155, 187, 81, 120, 193, 117, 104, 105, 217, 28, 202,
         104, 10, 81, 200, 41, 167, 45, 80, 12, 132, 194, 216, 50, 13, 79,
         120, 216, 128, 195, 7, 157, 130, 240, 102, 5, 126, 42, 130, 89, 99,
         60, 77, 85, 22, 121, 142, 36, 238, 64, 244, 106, 52, 114, 20, 131,
         56, 65, 205, 55, 10, 53, 207, 104, 88, 131, 242, 215, 21, 137, 224,
         185, 250, 248, 254, 40, 156, 204, 123, 49, 176, 62, 164, 89, 16, 123,
         119, 15, 231, 52, 26, 189, 198, 237, 4, 179, 59, 128, 10>>>>,
     \* SkeletonMsg(build_skeleton(Catalog({1, 3}, {}, {}), <<"r", "e", "e", "f">>, {ProbeMetadata(<<"T">>, <<"a">>)}))
     <<<<8, 0, 1, 0, 0, 0, 0, 12, 0, 2, 11, 0, 1, 0, 0, 0, 4, 114, 101, 101,
         102, 15, 0, 2, 12, 0, 0, 0, 2, 11, 0, 1, 0, 0, 0, 4, 116, 101, 109,
         112, 11, 0, 2, 0, 0, 0, 11, 84, 101, 109, 112, 101, 114, 97, 116,
         117, 114, 101, 11, 0, 3, 0, 0, 0, 1, 67, 8, 0, 4, 0, 0, 0, 1, 0, 11,
         0, 1, 0, 0, 0, 4, 115, 97, 108, 116, 11, 0, 2, 0, 0, 0, 8, 83, 97,
         108, 105, 110, 105, 116, 121, 11, 0, 3, 0, 0, 0, 3, 112, 112, 116, 8,
         0, 4, 0, 0, 0, 1, 0, 15, 0, 3, 12, 0, 0, 0, 0, 0, 0>>,
       <<27, 127, 0, 192, 134, 32, 183, 221, 3, 129, 237, 217, 168, 193, 16,
         13, 201, 128, 201, 192, 156, 69, 55, 56, 9, 2, 229, 56, 161, 32, 89,
         101, 148, 129, 247, 148, 69, 162, 108, 26, 111, 255, 116, 1, 67, 73,
         129, 246, 174, 117, 79, 101, 96, 104, 230, 204, 141, 252, 31, 58, 83,
         69, 28, 93, 67, 136, 234, 156, 144, 126, 94, 79, 111, 254, 217, 186,
         247, 135, 153, 234, 32>>>>,
     \* SkeletonMsg(build_skeleton(Catalog({1, 3}, {1}, {}), <<"r", "e", "e", "f">>, {ProbeMetadata(<<"T">>, <<"a">>)}))
     <<<<8, 0, 1, 0, 0, 0, 0, 12, 0, 2, 11, 0, 1, 0, 0, 0, 4, 114, 101, 101,
         102, 15, 0, 2, 12, 0, 0, 0, 2, 11, 0, 1, 0, 0, 0, 4, 116, 101, 109,
         112, 11, 0, 2, 0, 0, 0, 11, 84, 101, 109, 112, 101, 114, 97, 116,
         117, 114, 101, 11, 0, 3, 0, 0, 0, 1, 67, 8, 0, 4, 0, 0, 0, 1, 0, 11,
         0, 1, 0, 0, 0, 4, 115, 97, 108, 116, 11, 0, 2, 0, 0, 0, 8, 83, 97,
         108, 105, 110, 105, 116, 121, 11, 0, 3, 0, 0, 0, 3, 112, 112, 116, 8,
         0, 4, 0, 0, 0, 1, 0, 15, 0, 3, 12, 0, 0, 0, 1, 11, 0, 1, 0, 0, 0, 5,
         99, 95, 101, 110, 118, 11, 0, 2, 0, 0, 0, 11, 69, 110, 118, 105, 114,
         111, 110, 109, 101, 110, 116, 8, 0, 4, 0, 0, 0, 0, 8, 0, 7, 0, 0, 0,
         1, 15, 0, 8, 12, 0, 0, 0, 1, 11, 0, 1, 0, 0, 0, 6, 115, 95, 116, 101,
         109, 112, 11, 0, 2, 0, 0, 0, 4, 84, 101, 109, 112, 11, 0, 3, 0, 0, 0,
         3, 114, 101, 100, 0, 0, 0, 0>>,
       <<27, 215, 0, 128, 134, 160, 169, 236, 62, 73, 53, 240, 129, 172, 131,
         195, 40, 123, 7, 141, 163, 148, 42, 130, 58, 57, 9, 90, 160, 248,
         133, 65, 66, 33, 135, 17, 231, 1, 71, 154, 96, 110, 99, 195, 225, 16,
         218, 81, 16, 100, 175, 77, 23, 48, 148, 20, 104, 231, 90, 175, 169,
         12, 82, 48, 58, 103, 69, 126, 16, 141, 169, 34, 110, 93, 67, 40, 198,
         65, 145, 247, 59, 176, 57, 251, 71, 212, 227, 248, 242, 115, 170, 3,
         145, 2, 219, 99, 95, 239, 95, 42, 72, 99, 43, 175, 186, 43, 98, 234,
         61, 233, 242, 217, 199, 146, 214, 164, 138, 122, 174, 167, 0>>>>,
     \* SkeletonMsg(build_skeleton(Catalog({1, 3}, {2}, {}), <<"r", "e", "e", "f">>, {ProbeMetadata(<<"T">>, <<"a">>), ProbeMetadata(<<"P">>, <<"b">>)}))
     <<<<8, 0, 1, 0, 0, 0, 0, 12, 0, 2, 11, 0, 1, 0, 0, 0, 4, 114, 101, 101,
         102, 15, 0, 2, 12, 0, 0, 0, 2, 11, 0, 1, 0, 0, 0, 4, 116, 101, 109,
         112, 11, 0, 2, 0, 0, 0, 11, 84, 101, 109, 112, 101, 114, 97, 116,
         117, 114, 101, 11, 0, 3, 0, 0, 0, 1, 67, 8, 0, 4, 0, 0, 0, 1, 0, 11,
         0, 1, 0, 0, 0, 4, 115, 97, 108, 116, 11, 0, 2, 0, 0, 0, 8, 83, 97,
         108, 105, 110, 105, 116, 121, 11, 0, 3, 0, 0, 0, 3, 112, 112, 116, 8,
         0, 4, 0, 0, 0, 1, 0, 15, 0, 3, 12, 0, 0, 0, 1, 11, 0, 1, 0, 0, 0, 5,
         99, 95, 101, 110, 118, 11, 0, 2, 0, 0, 0, 11, 69, 110, 118, 105, 114,
         111, 110, 109, 101, 110, 116, 8, 0, 4, 0, 0, 0, 0, 8, 0, 7, 0, 0, 0,
         1, 15, 0, 8, 12, 0, 0, 0, 1, 11, 0, 1, 0, 0, 0, 4, 115, 95, 112, 104,
         11, 0, 2, 0, 0, 0, 2, 112, 72, 0, 0, 0, 0>>,
       <<27, 201, 0, 128, 134, 160, 169, 236, 62, 105, 105, 224, 3, 89, 135,
         46, 238, 178, 119, 144, 136, 147, 4, 17, 65, 157, 156, 28, 18, 8,
         140, 190, 48, 136, 155, 167, 28, 74, 129, 166, 154, 219, 216, 112,
         248, 220, 18, 68, 100, 175, 75, 19, 208, 149, 20, 216, 62, 115, 62,
         135, 210, 177, 24, 116, 201, 142, 252, 32, 26, 83, 69, 156, 205, 134,
         80, 204, 131, 66, 180, 59, 184, 57, 255, 171, 234, 90, 95, 126, 14,
         181, 35, 82, 96, 127, 92, 243, 253, 75, 5, 25, 108, 227, 170, 57, 16,
         67, 235, 136, 62, 122, 173, 87, 150, 117, 27, 1>>>>,
     \* SkeletonMsg(build_skeleton(Catalog({1, 3}, {1, 2}, {}), <<"r", "e", "e", "f">>, {ProbeMetadata(<<"T">>, <<"a">>), ProbeMetadata(<<"P">>, <<"b">>)}))
     <<<<8, 0, 1, 0, 0, 0, 0, 12, 0, 2, 11, 0, 1, 0, 0, 0, 4, 114, 101, 101,
         102, 15, 0, 2, 12, 0, 0, 0, 2, 11, 0, 1, 0, 0, 0, 4, 116, 101, 109,
         112, 11, 0, 2, 0, 0, 0, 11, 84, 101, 109, 112, 101, 114, 97, 116,
         117, 114, 101, 11, 0, 3, 0, 0, 0, 1, 67, 8, 0, 4, 0, 0, 0, 1, 0, 11,
         0, 1, 0, 0, 0, 4, 115, 97, 108, 116, 11, 0, 2, 0, 0, 0, 8, 83, 97,
         108, 105, 110, 105, 116, 121, 11, 0, 3, 0, 0, 0, 3, 112, 112, 116, 8,
         0, 4, 0, 0, 0, 1, 0, 15, 0, 3, 12, 0, 0, 0, 1, 11, 0, 1, 0, 0, 0, 5,
         99, 95, 101, 110, 118, 11, 0, 2, 0, 0, 0, 11, 69, 110, 118, 105, 114,
         111, 110, 109, 101, 110, 116, 8, 0, 4, 0, 0, 0, 0, 8, 0, 7, 0, 0, 0,
         1, 15, 0, 8, 12, 0, 0, 0, 2, 11, 0, 1, 0, 0, 0, 6, 115, 95, 116, 101,
         109, 112, 11, 0, 2, 0, 0, 0, 4, 84, 101, 109, 112, 11, 0, 3, 0, 0, 0,
         3, 114, 101, 100, 0, 11, 0, 1, 0, 0, 0, 4, 115, 95, 112, 104, 11, 0,
         2, 0, 0, 0, 2, 112, 72, 0, 0, 0, 0>>,
       <<27, 236, 0, 128, 6, 130, 126, 221, 239, 147, 107, 56, 246, 155, 254,
         193, 36, 217, 242, 36, 232, 2, 14, 140, 254, 202, 130, 56, 201, 66,
         30, 14, 101, 192, 35, 157, 224, 220, 198, 134, 195, 215, 142, 32, 35,
         123, 221, 120, 4, 64, 70, 38, 4, 160, 31, 135, 195, 177, 33, 51, 164,
         96, 116, 78, 59, 144, 62, 136, 142, 9, 5, 136, 206, 163, 1, 65, 49,
         14, 138, 210, 47, 192, 230, 226, 31, 163, 110, 183, 23, 127, 54, 84,
         6, 68, 66, 0, 102, 183, 58, 92, 62, 9, 9, 36, 99, 27, 95, 241, 56,
         64, 52, 188, 168, 197, 62, 87, 20, 237, 93, 250, 113, 216, 75, 209,
         213, 237, 92, 242, 54, 79, 9>>>>,
     \* SkeletonMsg(build_skeleton(Catalog({2, 3}, {}, {}), <<"r", "e", "e", "f">>, {ProbeMetadata(<<"P">>, <<"b">>)}))
     <<<<8, 0, 1, 0, 0, 0, 0, 12, 0, 2, 11, 0, 1, 0, 0, 0, 4, 114, 101, 101,
         102, 15, 0, 2, 12, 0, 0, 0, 2, 11, 0, 1, 0, 0, 0, 2, 112, 104, 11, 0,
         2, 0, 0, 0, 2, 112, 72, 11, 0, 3, 0, 0, 0, 0, 8, 0, 4, 0, 0, 0, 2, 0,
         11, 0, 1, 0, 0, 0, 4, 115, 97, 108, 116, 11, 0, 2, 0, 0, 0, 8, 83,
         97, 108, 105, 110, 105, 116, 121, 11, 0, 3, 0, 0, 0, 3, 112, 112,
         116, 8, 0, 4, 0, 0, 0, 1, 0, 15, 0, 3, 12, 0, 0, 0, 0, 0, 0>>,
       <<27, 115, 0, 248, 135, 160, 57, 241, 242, 137, 8, 124, 160, 214, 214,
         87, 168, 138, 142, 21, 202, 8, 91, 204, 98, 167, 64, 160, 117, 5,
         134, 72, 5, 237, 123, 93, 175, 77, 12, 68, 42, 136, 249, 78, 129,
         152, 123, 170, 208, 53, 132, 84, 208, 126, 231, 179, 82, 160, 31,
         231, 115, 127, 238, 245, 79, 21, 117, 206, 213, 53, 20, 155, 58, 0>>>>,
     \* SkeletonMsg(build_skeleton(Catalog({2, 3}, {1}, {}), <<"r", "e", "e", "f">>, {ProbeMetadata(<<"T">>, <<"a">>), ProbeMetadata(<<"P">>, <<"b">>)}))
     <<<<8, 0, 1, 0, 0, 0, 0, 12, 0, 2, 11, 0, 1, 0, 0, 0, 4, 114, 101, 101,
         102, 15, 0, 2, 12, 0, 0, 0, 2, 11, 0, 1, 0, 0, 0, 2, 112, 104, 11, 0,
         2, 0, 0, 0, 2, 112, 72, 11, 0, 3, 0, 0, 0, 0, 8, 0, 4, 0, 0, 0, 2, 0,
         11, 0, 1, 0, 0, 0, 4, 115, 97, 108, 116, 11, 0, 2, 0, 0, 0, 8, 83,
         97, 108, 105, 110, 105, 116, 121, 11, 0, 3, 0, 0, 0, 3, 112, 112,
         116, 8, 0, 4, 0, 0, 0, 1, 0, 15, 0, 3, 12, 0, 0, 0, 1, 11, 0, 1, 0,
         0, 0, 5, 99, 95, 101, 110, 118, 11, 0, 2, 0, 0, 0, 11, 69, 110, 118,
         105, 114, 111, 110, 109, 101, 110, 116, 8, 0, 4, 0, 0, 0, 0, 8, 0, 7,
         0, 0, 0, 1, 15, 0, 8, 12, 0, 0, 0, 1, 11, 0, 1, 0, 0, 0, 6, 115, 95,
         116, 101, 109, 112, 11, 0, 2, 0, 0, 0, 4, 84, 101, 109, 112, 11, 0,
         3, 0, 0, 0, 3, 114, 101, 100, 0, 0, 0, 0>>,
       <<27, 203, 0, 32, 142, 148, 238, 2, 221, 102, 132, 74, 71, 116, 32, 75,
         187, 93, 7, 23, 132, 255, 54, 247, 198, 224, 11, 174, 107, 123, 237,
         34, 117, 145, 32, 114, 232, 17, 4, 27, 112, 60, 168, 7, 182, 141, 11,
         209, 196, 120, 5, 64, 93, 160, 96, 62, 62, 60, 2, 126, 84, 2, 59,
         205, 158, 172, 9, 149, 64, 253, 149, 66, 125, 151, 1, 199, 66, 121,
         9, 236, 170, 61, 164, 112, 71, 237, 109, 180, 248, 101, 96, 220, 99,
         179, 16, 254, 76, 66, 36, 240, 92, 197, 198, 39, 133, 247, 103, 130,
         213, 241, 133, 100, 151, 229, 179, 74, 59, 240, 158, 166, 233, 76,
         187, 1>>>>,
     \* SkeletonMsg(build_skeleton(Catalog({2, 3}, {2}, {}), <<"r", "e", "e", "f">>, {ProbeMetadata(<<"P">>, <<"b">>)}))
     <<<<8, 0, 1, 0, 0, 0, 0, 12, 0, 2, 11, 0, 1, 0, 0, 0, 4, 114, 101, 101,
         102, 15, 0, 2, 12, 0, 0, 0, 2, 11, 0, 1, 0, 0, 0, 2, 112, 104, 11, 0,
         2, 0, 0, 0, 2, 112, 72, 11, 0, 3, 0, 0, 0, 0, 8, 0, 4, 0, 0, 0, 2, 0,
         11, 0, 1, 0, 0, 0, 4, 115, 97, 108, 116, 11, 0, 2, 0, 0, 0, 8, 83,
         97, 108, 105, 110, 105, 116, 121, 11, 0, 3, 0, 0, 0, 3, 112, 112,
         116, 8, 0, 4, 0, 0, 0, 1, 0, 15, 0, 3, 12, 0, 0, 0, 1, 11, 0, 1, 0,
         0, 0, 5, 99, 95, 101, 110, 118, 11, 0, 2, 0, 0, 0, 11, 69, 110, 118,
         105, 114, 111, 110, 109, 101, 110, 116, 8, 0, 4, 0, 0, 0, 0, 8, 0, 7,
         0, 0, 0, 1, 15, 0, 8, 12, 0, 0, 0, 1, 11, 0, 1, 0, 0, 0, 4, 115, 95,
         112, 104, 11, 0, 2, 0, 0, 0, 2, 112, 72, 0, 0, 0, 0>>,
       <<27, 189, 0, 248, 143, 148, 238, 2, 221, 38, 68, 39, 75, 251, 137,
         131, 11, 66, 185, 233, 141, 194, 11, 174, 171, 187, 236, 34, 37, 165,
         130, 72, 168, 161, 208, 22, 4, 27, 164, 128, 212, 8, 12, 33, 9, 51,
         30, 46, 1, 31, 149, 192, 188, 102, 119, 209, 140, 74, 160, 254, 72,
         161, 94, 229, 128, 101, 160, 92, 2, 115, 198, 10, 41, 108, 27, 107,
         238, 25, 191, 28, 56, 238, 145, 12, 132, 159, 147, 17, 9, 60, 87,
         183, 253, 73, 225, 238, 122, 50, 96, 121, 33, 197, 234, 57, 61, 0>>>>,
     \* SkeletonMsg(build_skeleton(Catalog({2, 3}, {1, 2}, {}), <<"r", "e", "e", "f">>, {ProbeMetadata(<<"T">>, <<"a">>), ProbeMetadata(<<"P">>, <<"b">>)}))
     <<<<8, 0, 1, 0, 0, 0, 0, 12, 0, 2, 11, 0, 1, 0, 0, 0, 4, 114, 101, 101,
         102, 15, 0, 2, 12, 0, 0, 0, 2, 11, 0, 1, 0, 0, 0, 2, 112, 104, 11, 0,
         2, 0, 0, 0, 2, 112, 72, 11, 0, 3, 0, 0, 0, 0, 8, 0, 4, 0, 0, 0, 2, 0,
         11, 0, 1, 0, 0, 0, 4, 115, 97, 108, 116, 11, 0, 2, 0, 0, 0, 8, 83,
         97, 108, 105, 110, 105, 116, 121, 11, 0, 3, 0, 0, 0, 3, 112, 112,
         116, 8, 0, 4, 0, 0, 0, 1, 0, 15, 0, 3, 12, 0, 0, 0, 1, 11, 0, 1, 0,
         0, 0, 5, 99, 95, 101, 110, 118, 11, 0, 2, 0, 0, 0, 11, 69, 110, 118,
         105, 114, 111, 110, 109, 101, 110, 116, 8, 0, 4, 0, 0, 0, 0, 8, 0, 7,
         0, 0, 0, 1, 15, 0, 8, 12, 0, 0, 0, 2, 11, 0, 1, 0, 0, 0, 6, 115, 95,
         116, 101, 109, 112, 11, 0, 2, 0, 0, 0, 4, 84, 101, 109, 112, 11, 0,
         3, 0, 0, 0, 3, 114, 101, 100, 0, 11, 0, 1, 0, 0, 0, 4, 115, 95, 112,
         104, 11, 0, 2, 0, 0, 0, 2, 112, 72, 0, 0, 0, 0>>,
       <<27, 224, 0, 224, 31, 169, 87, 31, 104, 158, 38, 68, 7, 178, 180, 219,
         117, 112, 65, 248, 111, 115, 111, 20, 190, 224, 186, 186, 215, 46,
         82, 23, 9, 34, 135, 74, 80, 0, 184, 193, 105, 129, 106, 130, 129, 4,
         145, 4, 140, 147, 226, 224, 33, 219, 158, 20, 165, 19, 248, 225, 17,
         240, 163, 10, 236, 52, 123, 82, 35, 85, 160, 254, 170, 80, 207, 26,
         112, 44, 148, 151, 192, 174, 218, 183, 10, 119, 212, 222, 70, 219,
         191, 6, 198, 125, 135, 133, 240, 103, 34, 81, 224, 185, 138, 141, 79,
         133, 119, 193, 247, 176, 224, 248, 66, 210, 165, 251, 179, 202, 209,
         160, 194, 158, 112, 50, 211, 110, 111, 169, 40, 1>>>>,
     \* SkeletonMsg(build_skeleton(Catalog({1, 2, 3}, {}, {}), <<"r", "e", "e", "f">>, {ProbeMetadata(<<"T">>, <<"a">>), ProbeMetadata(<<"P">>, <<"b">>)}))
     <<<<8, 0, 1, 0, 0, 0, 0, 12, 0, 2, 11, 0, 1, 0, 0, 0, 4, 114, 101, 101,
         102, 15, 0, 2, 12, 0, 0, 0, 3, 11, 0, 1, 0, 0, 0, 4, 116, 101, 109,
         112, 11, 0, 2, 0, 0, 0, 11, 84, 101, 109, 112, 101, 114, 97, 116,
         117, 114, 101, 11, 0, 3, 0, 0, 0, 1, 67, 8, 0, 4, 0, 0, 0, 1, 0, 11,
         0, 1, 0, 0, 0, 2, 112, 104, 11, 0, 2, 0, 0, 0, 2, 112, 72, 11, 0, 3,
         0, 0, 0, 0, 8, 0, 4, 0, 0, 0, 2, 0, 11, 0, 1, 0, 0, 0, 4, 115, 97,
         108, 116, 11, 0, 2, 0, 0, 0, 8, 83, 97, 108, 105, 110, 105, 116, 121,
         11, 0, 3, 0, 0, 0, 3, 112, 112, 116, 8, 0, 4, 0, 0, 0, 1, 0, 15, 0,
         3, 12, 0, 0, 0, 0, 0, 0>>,
       <<27, 160, 0, 248, 135, 160, 181, 216, 236, 222, 134, 131, 61, 248, 26,
         44, 118, 67, 50, 188, 24, 20, 14, 249, 34, 108, 192, 161, 70, 192,
         105, 100, 43, 221, 8, 8, 19, 77, 66, 222, 167, 128, 37, 91, 160, 126,
         231, 249, 58, 228, 194, 104, 129, 186, 206, 239, 110, 137, 190, 207,
         172, 13, 196, 109, 42, 132, 22, 200, 253, 110, 137, 220, 247, 54, 96,
         42, 164, 22, 168, 134, 180, 196, 124, 60, 63, 2, 254, 109, 144, 123,
         95, 83, 33, 28, 198, 2>>>>,
     \* SkeletonMsg(build_skeleton(Catalog({1, 2, 3}, {1}, {}), <<"r", "e", "e", "f">>, {ProbeMetadata(<<"T">>, <<"a">>), ProbeMetadata(<<"P">>, <<"b">>)}))
     <<<<8, 0, 1, 0, 0, 0, 0, 12, 0, 2, 11, 0, 1, 0, 0, 0, 4, 114, 101, 101,
         102, 15, 0, 2, 12, 0, 0, 0, 3, 11, 0, 1, 0, 0, 0, 4, 116, 101, 109,
         112, 11, 0, 2, 0, 0, 0, 11, 84, 101, 109, 112, 101, 114, 97, 116,
         117, 114, 101, 11, 0, 3, 0, 0, 0, 1, 67, 8, 0, 4, 0, 0, 0, 1, 0, 11,
         0, 1, 0, 0, 0, 2, 112, 104, 11, 0, 2, 0, 0, 0, 2, 112, 72, 11, 0, 3,
         0, 0, 0, 0, 8, 0, 4, 0, 0, 0, 2, 0, 11, 0, 1, 0, 0, 0, 4, 115, 97,
         108, 116, 11, 0, 2, 0, 0, 0, 8, 83, 97, 108, 105, 110, 105, 116, 121,
         11, 0, 3, 0, 0, 0, 3, 112, 112, 116, 8, 0, 4, 0, 0, 0, 1, 0, 15, 0,
         3, 12, 0, 0, 0, 1, 11, 0, 1, 0, 0, 0, 5, 99, 95, 101, 110, 118, 11,
         0, 2, 0, 0, 0, 11, 69, 110, 118, 105, 114, 111, 110, 109, 101, 110,
         116, 8, 0, 4, 0, 0, 0, 0, 8, 0, 7, 0, 0, 0, 1, 15, 0, 8, 12, 0, 0, 0,
         1, 11, 0, 1, 0, 0, 0, 6, 115, 95, 116, 101, 109, 112, 11, 0, 2, 0, 0,
         0, 4, 84, 101, 109, 112, 11, 0, 3, 0, 0, 0, 3, 114, 101, 100, 0, 0,
         0, 0>>,
       <<27, 248, 0, 224, 30, 169, 87, 31, 104, 158, 38, 162, 13, 134, 247,
         106, 37, 56, 24, 68, 115, 187, 56, 184, 193, 106, 176, 216, 165, 47,
         232, 139, 69, 121, 230, 16, 12, 0, 55, 56, 15, 20, 83, 138, 48, 227,
         32, 131, 137, 6, 28, 247, 28, 230, 118, 252, 164, 216, 183, 239, 75,
         192, 143, 50, 48, 35, 226, 108, 85, 105, 3, 51, 227, 78, 11, 238,
         125, 104, 204, 134, 44, 101, 32, 28, 129, 202, 203, 130, 202, 213, 6,
         203, 64, 113, 4, 230, 220, 196, 130, 221, 192, 94, 219, 111, 67, 103,
         78, 167, 203, 63, 93, 137, 129, 103, 239, 241, 124, 22, 220, 236,
         247, 101, 192, 242, 65, 218, 10, 236, 125, 123, 104, 76, 176, 161,
         71, 28, 4>>>>,
     \* SkeletonMsg(build_skeleton(Catalog({1, 2, 3}, {2}, {}), <<"r", "e", "e", "f">>, {ProbeMetadata(<<"T">>, <<"a">>), ProbeMetadata(<<"P">>, <<"b">>)}))
     <<<<8, 0, 1, 0, 0, 0, 0, 12, 0, 2, 11, 0, 1, 0, 0, 0, 4, 114, 101, 101,
         102, 15, 0, 2, 12, 0, 0, 0, 3, 11, 0, 1, 0, 0, 0, 4, 116, 101, 109,
         112, 11, 0, 2, 0, 0, 0, 11, 84, 101, 109, 112, 101, 114, 97, 116,
         117, 114, 101, 11, 0, 3, 0, 0, 0, 1, 67, 8, 0, 4, 0, 0, 0, 1, 0, 11,
         0, 1, 0, 0, 0, 2, 112, 104, 11, 0, 2, 0, 0, 0, 2, 112, 72, 11, 0, 3,
         0, 0, 0, 0, 8, 0, 4, 0, 0, 0, 2, 0, 11, 0, 1, 0, 0, 0, 4, 115, 97,
         108, 116, 11, 0, 2, 0, 0, 0, 8, 83, 97, 108, 105, 110, 105, 116, 121,
         11, 0, 3, 0, 0, 0, 3, 112, 112, 116, 8, 0, 4, 0, 0, 0, 1, 0, 15, 0,
         3, 12, 0, 0, 0, 1, 11, 0, 1, 0, 0, 0, 5, 99, 95, 101, 110, 118, 11,
         0, 2, 0, 0, 0, 11, 69, 110, 118, 105, 114, 111, 110, 109, 101, 110,
         116, 8, 0, 4, 0, 0, 0, 0, 8, 0, 7, 0, 0, 0, 1, 15, 0, 8, 12, 0, 0, 0,
         1, 11, 0, 1, 0, 0, 0, 4, 115, 95, 112, 104, 11, 0, 2, 0, 0, 0, 2,
         112, 72, 0, 0, 0, 0>>,
       <<27, 234, 0, 224, 142, 148, 171, 225, 110, 132, 91, 192, 110, 211, 72,
         248, 32, 158, 255, 189, 119, 70, 117, 127, 89, 7, 139, 93, 187, 65,
         95, 22, 122, 33, 197, 41, 7, 236, 45, 76, 48, 129, 8, 3, 224, 11, 93,
         240, 120, 183, 49, 92, 234, 25, 6, 65, 245, 250, 126, 2, 63, 141, 96,
         239, 222, 247, 81, 27, 38, 130, 125, 251, 89, 81, 188, 247, 161, 177,
         24, 100, 26, 44, 226, 9, 90, 71, 20, 173, 57, 6, 206, 162, 158, 96,
         207, 45, 162, 184, 5, 152, 171, 254, 148, 167, 234, 245, 109, 252,
         77, 67, 34, 248, 108, 107, 191, 190, 40, 222, 218, 147, 91, 231, 139,
         140, 174, 160, 247, 89, 251, 128, 0>>>>,
     \* SkeletonMsg(build_skeleton(Catalog({1, 2, 3}, {1, 2}, {}), <<"r", "e", "e", "f">>, {ProbeMetadata(<<"T">>, <<"a">>), ProbeMetadata(<<"P">>, <<"b">>)}))
     <<<<8, 0, 1, 0, 0, 0, 0, 12, 0, 2, 11, 0, 1, 0, 0, 0, 4, 114, 101, 101,
         102, 15, 0, 2, 12, 0, 0, 0, 3, 11, 0, 1, 0, 0, 0, 4, 116, 101, 109,
         112, 11, 0, 2, 0, 0, 0, 11, 84, 101, 109, 112, 101, 114, 97, 116,
         117, 114, 101, 11, 0, 3, 0, 0, 0, 1, 67, 8, 0, 4, 0, 0, 0, 1, 0, 11,
         0, 1, 0, 0, 0, 2, 112, 104, 11, 0, 2, 0, 0, 0, 2, 112, 72, 11, 0, 3,
         0, 0, 0, 0, 8, 0, 4, 0, 0, 0, 2, 0, 11, 0, 1, 0, 0, 0, 4, 115, 97,
         108, 116, 11, 0, 2, 0, 0, 0, 8, 83, 97, 108, 105, 110, 105, 116, 121,
         11, 0, 3, 0, 0, 0, 3, 112, 112, 116, 8, 0, 4, 0, 0, 0, 1, 0, 15, 0,
         3, 12, 0, 0, 0, 1, 11, 0, 1, 0, 0, 0, 5, 99, 95, 101, 110, 118, 11,
         0, 2, 0, 0, 0, 11, 69, 110, 118, 105, 114, 111, 110, 109, 101, 110,
         116, 8, 0, 4, 0, 0, 0, 0, 8, 0, 7, 0, 0, 0, 1, 15, 0, 8, 12, 0, 0, 0,
         2, 11, 0, 1, 0, 0, 0, 6, 115, 95, 116, 101, 109, 112, 11, 0, 2, 0, 0,
         0, 4, 84, 101, 109, 112, 11, 0, 3, 0, 0, 0, 3, 114, 101, 100, 0, 11,
         0, 1, 0, 0, 0, 4, 115, 95, 112, 104, 11, 0, 2, 0, 0, 0, 2, 112, 72,
         0, 0, 0, 0>>,
       <<27, 13, 1, 32, 31, 169, 87, 31, 104, 158, 38, 68, 39, 162, 236, 100,
         91, 161, 135, 195, 127, 115, 123, 113, 240, 15, 86, 131, 197, 46,
         253, 130, 126, 177, 40, 199, 28, 130, 1, 224, 148, 243, 64, 177, 45,
         225, 68, 3, 60, 211, 13, 142, 20, 30, 220, 100, 163, 81, 42, 124, 83,
         155, 223, 15, 1, 63, 170, 192, 14, 251, 236, 13, 70, 129, 157, 190,
         75, 133, 251, 60, 116, 166, 129, 44, 109, 33, 92, 2, 173, 75, 133,
         214, 170, 1, 135, 133, 114, 9, 236, 177, 133, 10, 103, 19, 167, 186,
         253, 26, 152, 170, 153, 211, 252, 51, 65, 20, 120, 246, 244, 243,
         169, 112, 151, 190, 213, 22, 28, 62, 72, 63, 65, 21, 120, 223, 68,
         198, 170, 192, 195, 7, 197, 76, 80, 26>>>>,
     \* TileUpdateMsg("temp", F64Of(21, 1))
     <<<<8, 0, 1, 0, 0, 0, 1, 12, 0, 3, 11, 0, 1, 0, 0, 0, 4, 116, 101, 109,
         112, 4, 0, 2, 64, 53, 0, 0, 0, 0, 0, 0, 0, 0>>,
       <<27, 33, 0, 248, 143, 212, 96, 205, 156, 35, 17, 185, 237, 126, 46, 8,
         90, 131, 177, 8, 6, 171, 166, 44, 58, 10, 4, 50, 5, 217, 198, 18,
         244, 127, 95, 171, 3>>>>,
     \* TileUpdateMsg("temp", F64Of(0, 1))
     <<<<8, 0, 1, 0, 0, 0, 1, 12, 0, 3, 11, 0, 1, 0, 0, 0, 4, 116, 101, 109,
         112, 4, 0, 2, 0, 0, 0, 0, 0, 0, 0, 0, 0, 0>>,
       <<27, 33, 0, 248, 135, 200, 109, 247, 115, 65, 208, 80, 170, 81, 48,
         24, 23, 5, 2, 159, 130, 108, 99, 9, 250, 159, 251, 90, 1>>>>,
     \* TileUpdateMsg("temp", F64Of(0 - 5, 3))
     <<<<8, 0, 1, 0, 0, 0, 1, 12, 0, 3, 11, 0, 1, 0, 0, 0, 4, 116, 101, 109,
         112, 4, 0, 2, 191, 250, 170, 170, 170, 170, 170, 171, 0, 0>>,
       <<139, 16, 128, 8, 0, 1, 0, 0, 0, 1, 12, 0, 3, 11, 0, 1, 0, 0, 0, 4,
         116, 101, 109, 112, 4, 0, 2, 191, 250, 170, 170, 170, 170, 170, 171,
         0, 0, 3>>>>,
     \* TileUpdateMsg("ph", F64Of(21, 1))
     <<<<8, 0, 1, 0, 0, 0, 1, 12, 0, 3, 11, 0, 1, 0, 0, 0, 2, 112, 104, 4, 0,
         2, 64, 53, 0, 0, 0, 0, 0, 0, 0, 0>>,
       <<27, 31, 0, 248, 143, 212, 96, 205, 156, 35, 17, 205, 237, 30, 8, 108,
         90, 131, 49, 90, 53, 104, 81, 81, 32, 240, 21, 228, 234, 35, 168,
         127, 212, 3>>>>,
     \* TileUpdateMsg("ph", F64Of(0, 1))
     <<<<8, 0, 1, 0, 0, 0, 1, 12, 0, 3, 11, 0, 1, 0, 0, 0, 2, 112, 104, 4, 0,
         2, 0, 0, 0, 0, 0, 0, 0, 0, 0, 0>>,
       <<27, 31, 0, 248, 143, 212, 96, 205, 156, 35, 33, 78, 215, 1, 130, 132,
         11, 39, 30, 104, 113, 81, 32, 208, 21, 228, 233, 19, 212, 31, 5>>>>,
     \* TileUpdateMsg("ph", F64Of(0 - 5, 3))
     <<<<8, 0, 1, 0, 0, 0, 1, 12, 0, 3, 11, 0, 1, 0, 0, 0, 2, 112, 104, 4, 0,
         2, 191, 250, 170, 170, 170, 170, 170, 171, 0, 0>>,
       <<139, 15, 128, 8, 0, 1, 0, 0, 0, 1, 12, 0, 3, 11, 0, 1, 0, 0, 0, 2,
         112, 104, 4, 0, 2, 191, 250, 170, 170, 170, 170, 170, 171, 0, 0, 3>>>>,
     \* TileUpdateMsg("salt", F64Of(21, 1))
     <<<<8, 0, 1, 0, 0, 0, 1, 12, 0, 3, 11, 0, 1, 0, 0, 0, 4, 115, 97, 108,
         116, 4, 0, 2, 64, 53, 0, 0, 0, 0, 0, 0, 0, 0>>,
       <<27, 33, 0, 248, 143, 212, 96, 205, 156, 35, 17, 213, 109, 239, 125,
         48, 67, 13, 98, 208, 168, 154, 176, 232, 40, 16, 200, 20, 100, 27,
         75, 208, 239, 253, 173, 14>>>>,
     \* TileUpdateMsg("salt", F64Of(0, 1))
     <<<<8, 0, 1, 0, 0, 0, 1, 12, 0, 3, 11, 0, 1, 0, 0, 0, 4, 115, 97, 108,
         116, 4, 0, 2, 0, 0, 0, 0, 0, 0, 0, 0, 0, 0>>,
       <<27, 33, 0, 248, 143, 212, 96, 205, 156, 35, 17, 205, 237, 30, 8, 110,
         26, 82, 180, 105, 132, 197, 69, 129, 192, 151, 32, 71, 111, 193, 188,
         251, 71, 1>>>>,
     \* TileUpdateMsg("salt", F64Of(0 - 5, 3))
     <<<<8, 0, 1, 0, 0, 0, 1, 12, 0, 3, 11, 0, 1, 0, 0, 0, 4, 115, 97, 108,
         116, 4, 0, 2, 191, 250, 170, 170, 170, 170, 170, 171, 0, 0>>,
       <<139, 16, 128, 8, 0, 1, 0, 0, 0, 1, 12, 0, 3, 11, 0, 1, 0, 0, 0, 4,
         115, 97, 108, 116, 4, 0, 2, 191, 250, 170, 170, 170, 170, 170, 171,
         0, 0, 3>>>>,
     \* ChartUpdateMsg("c_env", "s_temp", RawSeries(1))
     <<<<8, 0, 1, 0, 0, 0, 2, 12, 0, 4, 11, 0, 1, 0, 0, 0, 5, 99, 95, 101,
         110, 118, 15, 0, 2, 12, 0, 0, 0, 1, 11, 0, 1, 0, 0, 0, 6, 115, 95,
         116, 101, 109, 112, 15, 0, 2, 12, 0, 0, 0, 1, 10, 0, 1, 0, 0, 0, 0,
         0, 0, 3, 232, 4, 0, 2, 63, 240, 0, 0, 0, 0, 0, 0, 0, 0, 0, 0>>,
       <<27, 76, 0, 248, 143, 212, 99, 205, 152, 28, 137, 160, 185, 221, 255,
         166, 136, 27, 24, 163, 45, 200, 162, 34, 40, 134, 152, 173, 47, 248,
         92, 224, 32, 147, 202, 1, 18, 206, 69, 32, 187, 218, 4, 166, 195,
         184, 190, 77, 118, 68, 19, 152, 31, 239, 56, 239, 214, 66, 249, 171,
         220, 3>>>>,
     \* ChartUpdateMsg("c_env", "s_temp", RawSeries(2))
     <<<<8, 0, 1, 0, 0, 0, 2, 12, 0, 4, 11, 0, 1, 0, 0, 0, 5, 99, 95, 101,
         110, 118, 15, 0, 2, 12, 0, 0, 0, 1, 11, 0, 1, 0, 0, 0, 6, 115, 95,
         116, 101, 109, 112, 15, 0, 2, 12, 0, 0, 0, 2, 10, 0, 1, 0, 0, 0, 0,
         0, 0, 3, 232, 4, 0, 2, 63, 240, 0, 0, 0, 0, 0, 0, 0, 10, 0, 1, 0, 0,
         0, 0, 0, 0, 7, 208, 4, 0, 2, 64, 0, 0, 0, 0, 0, 0, 0, 0, 0, 0, 0>>,
       <<27, 99, 0, 248, 31, 165, 53, 150, 40, 158, 247, 137, 109, 200, 116,
         96, 97, 190, 8, 229, 182, 203, 238, 97, 49, 106, 106, 11, 178, 168,
         8, 138, 161, 100, 75, 180, 8, 224, 227, 166, 48, 32, 63, 2, 149, 101,
         2, 187, 71, 206, 235, 42, 196, 4, 206, 142, 147, 99, 185, 10, 45, 2,
         152, 79, 107, 192, 39, 128, 251, 104, 3>>>>,
     \* ChartUpdateMsg("c_env", "s_temp", RawSeries(3))
     <<<<8, 0, 1, 0, 0, 0, 2, 12, 0, 4, 11, 0, 1, 0, 0, 0, 5, 99, 95, 101,
         110, 118, 15, 0, 2, 12, 0, 0, 0, 1, 11, 0, 1, 0, 0, 0, 6, 115, 95,
         116, 101, 109, 112, 15, 0, 2, 12, 0, 0, 0, 3, 10, 0, 1, 0, 0, 0, 0,
         0, 0, 3, 232, 4, 0, 2, 63, 240, 0, 0, 0, 0, 0, 0, 0, 10, 0, 1, 0, 0,
         0, 0, 0, 0, 7, 208, 4, 0, 2, 64, 0, 0, 0, 0, 0, 0, 0, 0, 10, 0, 1, 0,
         0, 0, 0, 0, 0, 11, 184, 4, 0, 2, 64, 8, 0, 0, 0, 0, 0, 0, 0, 0, 0, 0>>,
       <<27, 122, 0, 248, 143, 147, 92, 237, 117, 22, 15, 189, 183, 127, 183,
         85, 123, 109, 232, 69, 54, 8, 48, 151, 4, 19, 12, 235, 135, 50, 55,
         59, 30, 112, 209, 232, 147, 111, 86, 228, 138, 215, 7, 36, 64, 194,
         50, 94, 77, 32, 135, 218, 5, 150, 107, 218, 200, 129, 232, 2, 235,
         61, 151, 73, 101, 223, 40, 95, 149, 199, 15, 0, 219, 107, 79, 236,
         79, 27, 2>>>>,
     \* ChartUpdateMsg("c_env", "s_ph", RawSeries(1))
     <<<<8, 0, 1, 0, 0, 0, 2, 12, 0, 4, 11, 0, 1, 0, 0, 0, 5, 99, 95, 101,
         110, 118, 15, 0, 2, 12, 0, 0, 0, 1, 11, 0, 1, 0, 0, 0, 4, 115, 95,
         112, 104, 15, 0, 2, 12, 0, 0, 0, 1, 10, 0, 1, 0, 0, 0, 0, 0, 0, 3,
         232, 4, 0, 2, 63, 240, 0, 0, 0, 0, 0, 0, 0, 0, 0, 0>>,
       <<27, 74, 0, 248, 143, 212, 99, 205, 152, 28, 137, 160, 185, 221, 111,
         63, 24, 219, 192, 24, 109, 65, 4, 147, 8, 130, 33, 102, 235, 11, 190,
         23, 128, 65, 7, 147, 132, 8, 95, 23, 40, 75, 78, 129, 118, 56, 239,
         111, 83, 22, 98, 10, 228, 235, 185, 24, 66, 253, 51, 123, 0>>>>,
     \* ChartUpdateMsg("c_env", "s_ph", RawSeries(2))
     <<<<8, 0, 1, 0, 0, 0, 2, 12, 0, 4, 11, 0, 1, 0, 0, 0, 5, 99, 95, 101,
         110, 118, 15, 0, 2, 12, 0, 0, 0, 1, 11, 0, 1, 0, 0, 0, 4, 115, 95,
         112, 104, 15, 0, 2, 12, 0, 0, 0, 2, 10, 0, 1, 0, 0, 0, 0, 0, 0, 3,
         232, 4, 0, 2, 63, 240, 0, 0, 0, 0, 0, 0, 0, 10, 0, 1, 0, 0, 0, 0, 0,
         0, 7, 208, 4, 0, 2, 64, 0, 0, 0, 0, 0, 0, 0, 0, 0, 0, 0>>,
       <<27, 97, 0, 248, 143, 211, 165, 246, 96, 235, 100, 33, 99, 195, 105,
         70, 231, 80, 110, 187, 188, 61, 44, 70, 77, 109, 65, 4, 147, 8, 130,
         161, 100, 75, 52, 26, 55, 133, 1, 247, 35, 80, 153, 11, 220, 150,
         125, 158, 80, 33, 46, 176, 157, 107, 132, 10, 53, 1, 156, 55, 45, 31,
         240, 19, 192, 187, 211, 10>>>>,
     \* ChartUpdateMsg("c_env", "s_ph", RawSeries(3))
     <<<<8, 0, 1, 0, 0, 0, 2, 12, 0, 4, 11, 0, 1, 0, 0, 0, 5, 99, 95, 101,
         110, 118, 15, 0, 2, 12, 0, 0, 0, 1, 11, 0, 1, 0, 0, 0, 4, 115, 95,
         112, 104, 15, 0, 2, 12, 0, 0, 0, 3, 10, 0, 1, 0, 0, 0, 0, 0, 0, 3,
         232, 4, 0, 2, 63, 240, 0, 0, 0, 0, 0, 0, 0, 10, 0, 1, 0, 0, 0, 0, 0,
         0, 7, 208, 4, 0, 2, 64, 0, 0, 0, 0, 0, 0, 0, 0, 10, 0, 1, 0, 0, 0, 0,
         0, 0, 11, 184, 4, 0, 2, 64, 8, 0, 0, 0, 0, 0, 0, 0, 0, 0, 0>>,
       <<27, 120, 0, 248, 31, 7, 110, 172, 60, 131, 114, 28, 123, 104, 13, 81,
         175, 219, 9, 1, 196, 109, 139, 199, 31, 30, 163, 79, 237, 65, 4, 147,
         8, 130, 57, 91, 162, 37, 90, 4, 240, 241, 83, 32, 224, 46, 129, 154,
         165, 2, 187, 101, 159, 199, 213, 16, 21, 88, 59, 215, 112, 53, 76,
         17, 192, 124, 90, 3, 30, 1, 156, 71, 3, 192, 35, 128, 127, 105, 8>>>>,
     \* ChartUpdateMsg("c_env", "s_orp", RawSeries(1))
     <<<<8, 0, 1, 0, 0, 0, 2, 12, 0, 4, 11, 0, 1, 0, 0, 0, 5, 99, 95, 101,
         110, 118, 15, 0, 2, 12, 0, 0, 0, 1, 11, 0, 1, 0, 0, 0, 5, 115, 95,
         111, 114, 112, 15, 0, 2, 12, 0, 0, 0, 1, 10, 0, 1, 0, 0, 0, 0, 0, 0,
         3, 232, 4, 0, 2, 63, 240, 0, 0, 0, 0, 0, 0, 0, 0, 0, 0>>,
       <<27, 75, 0, 248, 143, 212, 99, 205, 152, 28, 137, 160, 185, 221, 255,
         54, 24, 110, 96, 140, 182, 32, 86, 21, 5, 67, 204, 214, 23, 124, 46,
         112, 144, 73, 229, 192, 8, 99, 23, 200, 169, 14, 129, 182, 59, 206,
         111, 149, 19, 49, 4, 218, 235, 122, 238, 150, 66, 249, 171, 220, 2>>>>,
     \* ChartUpdateMsg("c_env", "s_orp", RawSeries(2))
     <<<<8, 0, 1, 0, 0, 0, 2, 12, 0, 4, 11, 0, 1, 0, 0, 0, 5, 99, 95, 101,
         110, 118, 15, 0, 2, 12, 0, 0, 0, 1, 11, 0, 1, 0, 0, 0, 5, 115, 95,
         111, 114, 112, 15, 0, 2, 12, 0, 0, 0, 2, 10, 0, 1, 0, 0, 0, 0, 0, 0,
         3, 232, 4, 0, 2, 63, 240, 0, 0, 0, 0, 0, 0, 0, 10, 0, 1, 0, 0, 0, 0,
         0, 0, 7, 208, 4, 0, 2, 64, 0, 0, 0, 0, 0, 0, 0, 0, 0, 0, 0>>,
       <<27, 98, 0, 248, 143, 211, 165, 246, 96, 235, 100, 33, 115, 155, 246,
         83, 4, 255, 121, 123, 217, 253, 237, 98, 36, 181, 11, 166, 98, 108,
         66, 201, 74, 20, 197, 77, 97, 0, 126, 4, 42, 99, 2, 91, 163, 245,
         227, 42, 196, 4, 118, 199, 88, 211, 85, 104, 18, 192, 121, 163, 249,
         3, 62, 1, 220, 59, 90, 0>>>>,
     \* ChartUpdateMsg("c_env", "s_orp", RawSeries(3))
     <<<<8, 0, 1, 0, 0, 0, 2, 12, 0, 4, 11, 0, 1, 0, 0, 0, 5, 99, 95, 101,
         110, 118, 15, 0, 2, 12, 0, 0, 0, 1, 11, 0, 1, 0, 0, 0, 5, 115, 95,
         111, 114, 112, 15, 0, 2, 12, 0, 0, 0, 3, 10, 0, 1, 0, 0, 0, 0, 0, 0,
         3, 232, 4, 0, 2, 63, 240, 0, 0, 0, 0, 0, 0, 0, 10, 0, 1, 0, 0, 0, 0,
         0, 0, 7, 208, 4, 0, 2, 64, 0, 0, 0, 0, 0, 0, 0, 0, 10, 0, 1, 0, 0, 0,
         0, 0, 0, 11, 184, 4, 0, 2, 64, 8, 0, 0, 0, 0, 0, 0, 0, 0, 0, 0>>,
       <<27, 121, 0, 248, 31, 7, 110, 172, 60, 131, 114, 28, 123, 104, 13, 81,
         175, 219, 9, 1, 34, 111, 23, 205, 255, 246, 49, 250, 212, 62, 152,
         138, 177, 201, 89, 137, 74, 84, 4, 240, 241, 83, 32, 240, 46, 129,
         170, 37, 2, 187, 70, 235, 199, 84, 17, 17, 216, 59, 198, 154, 166,
         138, 201, 2, 152, 79, 75, 192, 35, 128, 243, 168, 3, 120, 4, 240, 47,
         245, 4>>>>,
     \* ChartUpdateMsg("c_env", "s_temp", RawSeries(MAX_POINTS_PER_SERIES))
     <<<<8, 0, 1, 0, 0, 0, 2, 12, 0, 4, 11, 0, 1, 0, 0, 0, 5, 99, 95, 101,
         110, 118, 15, 0, 2, 12, 0, 0, 0, 1, 11, 0, 1, 0, 0, 0, 6, 115, 95,
         116, 101, 109, 112, 15, 0, 2, 12, 0, 0, 0, 150, 10, 0, 1, 0, 0, 0, 0,
         0, 0, 3, 232, 4, 0, 2, 63, 240, 0, 0, 0, 0, 0, 0, 0, 10, 0, 1, 0, 0,
         0, 0, 0, 0, 7, 208, 4, 0, 2, 64, 0, 0, 0, 0, 0, 0, 0, 0, 10, 0, 1, 0,
         0, 0, 0, 0, 0, 11, 184, 4, 0, 2, 64, 8, 0, 0, 0, 0, 0, 0, 0, 10, 0,
         1, 0, 0, 0, 0, 0, 0, 15, 160, 4, 0, 2, 0, 0, 0, 0, 0, 0, 0, 0, 0, 10,
         0, 1, 0, 0, 0, 0, 0, 0, 19, 136, 4, 0, 2, 63, 240, 0, 0, 0, 0, 0, 0,
         0, 10, 0, 1, 0, 0, 0, 0, 0, 0, 23, 112, 4, 0, 2, 64, 0, 0, 0, 0, 0,
         0, 0, 0, 10, 0, 1, 0, 0, 0, 0, 0, 0, 27, 88, 4, 0, 2, 64, 8, 0, 0, 0,
         0, 0, 0, 0, 10, 0, 1, 0, 0, 0, 0, 0, 0, 31, 64, 4, 0, 2, 0, 0, 0, 0,
         0, 0, 0, 0, 0, 10, 0, 1, 0, 0, 0, 0, 0, 0, 35, 40, 4, 0, 2, 63, 240,
         0, 0, 0, 0, 0, 0, 0, 10, 0, 1, 0, 0, 0, 0, 0, 0, 39, 16, 4, 0, 2, 64,
         0, 0, 0, 0, 0, 0, 0, 0, 10, 0, 1, 0, 0, 0, 0, 0, 0, 42, 248, 4, 0, 2,
         64, 8, 0, 0, 0, 0, 0, 0, 0, 10, 0, 1, 0, 0, 0, 0, 0, 0, 46, 224, 4,
         0, 2, 0, 0, 0, 0, 0, 0, 0, 0, 0, 10, 0, 1, 0, 0, 0, 0, 0, 0, 50, 200,
         4, 0, 2, 63, 240, 0, 0, 0, 0, 0, 0, 0, 10, 0, 1, 0, 0, 0, 0, 0, 0,
         54, 176, 4, 0, 2, 64, 0, 0, 0, 0, 0, 0, 0, 0, 10, 0, 1, 0, 0, 0, 0,
         0, 0, 58, 152, 4, 0, 2, 64, 8, 0, 0, 0, 0, 0, 0, 0, 10, 0, 1, 0, 0,
         0, 0, 0, 0, 62, 128, 4, 0, 2, 0, 0, 0, 0, 0, 0, 0, 0, 0, 10, 0, 1, 0,
         0, 0, 0, 0, 0, 66, 104, 4, 0, 2, 63, 240, 0, 0, 0, 0, 0, 0, 0, 10, 0,
         1, 0, 0, 0, 0, 0, 0, 70, 80, 4, 0, 2, 64, 0, 0, 0, 0, 0, 0, 0, 0, 10,
         0, 1, 0, 0, 0, 0, 0, 0, 74, 56, 4, 0, 2, 64, 8, 0, 0, 0, 0, 0, 0, 0,
         10, 0, 1, 0, 0, 0, 0, 0, 0, 78, 32, 4, 0, 2, 0, 0, 0, 0, 0, 0, 0, 0,
         0, 10, 0, 1, 0, 0, 0, 0, 0, 0, 82, 8, 4, 0, 2, 63, 240, 0, 0, 0, 0,
         0, 0, 0, 10, 0, 1, 0, 0, 0, 0, 0, 0, 85, 240, 4, 0, 2, 64, 0, 0, 0,
         0, 0, 0, 0, 0, 10, 0, 1, 0, 0, 0, 0, 0, 0, 89, 216, 4, 0, 2, 64, 8,
         0, 0, 0, 0, 0, 0, 0, 10, 0, 1, 0, 0, 0, 0, 0, 0, 93, 192, 4, 0, 2, 0,
         0, 0, 0, 0, 0, 0, 0, 0, 10, 0, 1, 0, 0, 0, 0, 0, 0, 97, 168, 4, 0, 2,
         63, 240, 0, 0, 0, 0, 0, 0, 0, 10, 0, 1, 0, 0, 0, 0, 0, 0, 101, 144,
         4, 0, 2, 64, 0, 0, 0, 0, 0, 0, 0, 0, 10, 0, 1, 0, 0, 0, 0, 0, 0, 105,
         120, 4, 0, 2, 64, 8, 0, 0, 0, 0, 0, 0, 0, 10, 0, 1, 0, 0, 0, 0, 0, 0,
         109, 96, 4, 0, 2, 0, 0, 0, 0, 0, 0, 0, 0, 0, 10, 0, 1, 0, 0, 0, 0, 0,
         0, 113, 72, 4, 0, 2, 63, 240, 0, 0, 0, 0, 0, 0, 0, 10, 0, 1, 0, 0, 0,
         0, 0, 0, 117, 48, 4, 0, 2, 64, 0, 0, 0, 0, 0, 0, 0, 0, 10, 0, 1, 0,
         0, 0, 0, 0, 0, 121, 24, 4, 0, 2, 64, 8, 0, 0, 0, 0, 0, 0, 0, 10, 0,
         1, 0, 0, 0, 0, 0, 0, 125, 0, 4, 0, 2, 0, 0, 0, 0, 0, 0, 0, 0, 0, 10,
         0, 1, 0, 0, 0, 0, 0, 0, 128, 232, 4, 0, 2, 63, 240, 0, 0, 0, 0, 0, 0,
         0, 10, 0, 1, 0, 0, 0, 0, 0, 0, 132, 208, 4, 0, 2, 64, 0, 0, 0, 0, 0,
         0, 0, 0, 10, 0, 1, 0, 0, 0, 0, 0, 0, 136, 184, 4, 0, 2, 64, 8, 0, 0,
         0, 0, 0, 0, 0, 10, 0, 1, 0, 0, 0, 0, 0, 0, 140, 160, 4, 0, 2, 0, 0,
         0, 0, 0, 0, 0, 0, 0, 10, 0, 1, 0, 0, 0, 0, 0, 0, 144, 136, 4, 0, 2,
         63, 240, 0, 0, 0, 0, 0, 0, 0, 10, 0, 1, 0, 0, 0, 0, 0, 0, 148, 112,
         4, 0, 2, 64, 0, 0, 0, 0, 0, 0, 0, 0, 10, 0, 1, 0, 0, 0, 0, 0, 0, 152,
         88, 4, 0, 2, 64, 8, 0, 0, 0, 0, 0, 0, 0, 10, 0, 1, 0, 0, 0, 0, 0, 0,
         156, 64, 4, 0, 2, 0, 0, 0, 0, 0, 0, 0, 0, 0, 10, 0, 1, 0, 0, 0, 0, 0,
         0, 160, 40, 4, 0, 2, 63, 240, 0, 0, 0, 0, 0, 0, 0, 10, 0, 1, 0, 0, 0,
         0, 0, 0, 164, 16, 4, 0, 2, 64, 0, 0, 0, 0, 0, 0, 0, 0, 10, 0, 1, 0,
         0, 0, 0, 0, 0, 167, 248, 4, 0, 2, 64, 8, 0, 0, 0, 0, 0, 0, 0, 10, 0,
         1, 0, 0, 0, 0, 0, 0, 171, 224, 4, 0, 2, 0, 0, 0, 0, 0, 0, 0, 0, 0,
         10, 0, 1, 0, 0, 0, 0, 0, 0, 175, 200, 4, 0, 2, 63, 240, 0, 0, 0, 0,
         0, 0, 0, 10, 0, 1, 0, 0, 0, 0, 0, 0, 179, 176, 4, 0, 2, 64, 0, 0, 0,
         0, 0, 0, 0, 0, 10, 0, 1, 0, 0, 0, 0, 0, 0, 183, 152, 4, 0, 2, 64, 8,
         0, 0, 0, 0, 0, 0, 0, 10, 0, 1, 0, 0, 0, 0, 0, 0, 187, 128, 4, 0, 2,
         0, 0, 0, 0, 0, 0, 0, 0, 0, 10, 0, 1, 0, 0, 0, 0, 0, 0, 191, 104, 4,
         0, 2, 63, 240, 0, 0, 0, 0, 0, 0, 0, 10, 0, 1, 0, 0, 0, 0, 0, 0, 195,
         80, 4, 0, 2, 64, 0, 0, 0, 0, 0, 0, 0, 0, 10, 0, 1, 0, 0, 0, 0, 0, 0,
         199, 56, 4, 0, 2, 64, 8, 0, 0, 0, 0, 0, 0, 0, 10, 0, 1, 0, 0, 0, 0,
         0, 0, 203, 32, 4, 0, 2, 0, 0, 0, 0, 0, 0, 0, 0, 0, 10, 0, 1, 0, 0, 0,
         0, 0, 0, 207, 8, 4, 0, 2, 63, 240, 0, 0, 0, 0, 0, 0, 0, 10, 0, 1, 0,
         0, 0, 0, 0, 0, 210, 240, 4, 0, 2, 64, 0, 0, 0, 0, 0, 0, 0, 0, 10, 0,
         1, 0, 0, 0, 0, 0, 0, 214, 216, 4, 0, 2, 64, 8, 0, 0, 0, 0, 0, 0, 0,
         10, 0, 1, 0, 0, 0, 0, 0, 0, 218, 192, 4, 0, 2, 0, 0, 0, 0, 0, 0, 0,
         0, 0, 10, 0, 1, 0, 0, 0, 0, 0, 0, 222, 168, 4, 0, 2, 63, 240, 0, 0,
         0, 0, 0, 0, 0, 10, 0, 1, 0, 0, 0, 0, 0, 0, 226, 144, 4, 0, 2, 64, 0,
         0, 0, 0, 0, 0, 0, 0, 10, 0, 1, 0, 0, 0, 0, 0, 0, 230, 120, 4, 0, 2,
         64, 8, 0, 0, 0, 0, 0, 0, 0, 10, 0, 1, 0, 0, 0, 0, 0, 0, 234, 96, 4,
         0, 2, 0, 0, 0, 0, 0, 0, 0, 0, 0, 10, 0, 1, 0, 0, 0, 0, 0, 0, 238, 72,
         4, 0, 2, 63, 240, 0, 0, 0, 0, 0, 0, 0, 10, 0, 1, 0, 0, 0, 0, 0, 0,
         242, 48, 4, 0, 2, 64, 0, 0, 0, 0, 0, 0, 0, 0, 10, 0, 1, 0, 0, 0, 0,
         0, 0, 246, 24, 4, 0, 2, 64, 8, 0, 0, 0, 0, 0, 0, 0, 10, 0, 1, 0, 0,
         0, 0, 0, 0, 250, 0, 4, 0, 2, 0, 0, 0, 0, 0, 0, 0, 0, 0, 10, 0, 1, 0,
         0, 0, 0, 0, 0, 253, 232, 4, 0, 2, 63, 240, 0, 0, 0, 0, 0, 0, 0, 10,
         0, 1, 0, 0, 0, 0, 0, 1, 1, 208, 4, 0, 2, 64, 0, 0, 0, 0, 0, 0, 0, 0,
         10, 0, 1, 0, 0, 0, 0, 0, 1, 5, 184, 4, 0, 2, 64, 8, 0, 0, 0, 0, 0, 0,
         0, 10, 0, 1, 0, 0, 0, 0, 0, 1, 9, 160, 4, 0, 2, 0, 0, 0, 0, 0, 0, 0,
         0, 0, 10, 0, 1, 0, 0, 0, 0, 0, 1, 13, 136, 4, 0, 2, 63, 240, 0, 0, 0,
         0, 0, 0, 0, 10, 0, 1, 0, 0, 0, 0, 0, 1, 17, 112, 4, 0, 2, 64, 0, 0,
         0, 0, 0, 0, 0, 0, 10, 0, 1, 0, 0, 0, 0, 0, 1, 21, 88, 4, 0, 2, 64, 8,
         0, 0, 0, 0, 0, 0, 0, 10, 0, 1, 0, 0, 0, 0, 0, 1, 25, 64, 4, 0, 2, 0,
         0, 0, 0, 0, 0, 0, 0, 0, 10, 0, 1, 0, 0, 0, 0, 0, 1, 29, 40, 4, 0, 2,
         63, 240, 0, 0, 0, 0, 0, 0, 0, 10, 0, 1, 0, 0, 0, 0, 0, 1, 33, 16, 4,
         0, 2, 64, 0, 0, 0, 0, 0, 0, 0, 0, 10, 0, 1, 0, 0, 0, 0, 0, 1, 36,
         248, 4, 0, 2, 64, 8, 0, 0, 0, 0, 0, 0, 0, 10, 0, 1, 0, 0, 0, 0, 0, 1,
         40, 224, 4, 0, 2, 0, 0, 0, 0, 0, 0, 0, 0, 0, 10, 0, 1, 0, 0, 0, 0, 0,
         1, 44, 200, 4, 0, 2, 63, 240, 0, 0, 0, 0, 0, 0, 0, 10, 0, 1, 0, 0, 0,
         0, 0, 1, 48, 176, 4, 0, 2, 64, 0, 0, 0, 0, 0, 0, 0, 0, 10, 0, 1, 0,
         0, 0, 0, 0, 1, 52, 152, 4, 0, 2, 64, 8, 0, 0, 0, 0, 0, 0, 0, 10, 0,
         1, 0, 0, 0, 0, 0, 1, 56, 128, 4, 0, 2, 0, 0, 0, 0, 0, 0, 0, 0, 0, 10,
         0, 1, 0, 0, 0, 0, 0, 1, 60, 104, 4, 0, 2, 63, 240, 0, 0, 0, 0, 0, 0,
         0, 10, 0, 1, 0, 0, 0, 0, 0, 1, 64, 80, 4, 0, 2, 64, 0, 0, 0, 0, 0, 0,
         0, 0, 10, 0, 1, 0, 0, 0, 0, 0, 1, 68, 56, 4, 0, 2, 64, 8, 0, 0, 0, 0,
         0, 0, 0, 10, 0, 1, 0, 0, 0, 0, 0, 1, 72, 32, 4, 0, 2, 0, 0, 0, 0, 0,
         0, 0, 0, 0, 10, 0, 1, 0, 0, 0, 0, 0, 1, 76, 8, 4, 0, 2, 63, 240, 0,
         0, 0, 0, 0, 0, 0, 10, 0, 1, 0, 0, 0, 0, 0, 1, 79, 240, 4, 0, 2, 64,
         0, 0, 0, 0, 0, 0, 0, 0, 10, 0, 1, 0, 0, 0, 0, 0, 1, 83, 216, 4, 0, 2,
         64, 8, 0, 0, 0, 0, 0, 0, 0, 10, 0, 1, 0, 0, 0, 0, 0, 1, 87, 192, 4,
         0, 2, 0, 0, 0, 0, 0, 0, 0, 0, 0, 10, 0, 1, 0, 0, 0, 0, 0, 1, 91, 168,
         4, 0, 2, 63, 240, 0, 0, 0, 0, 0, 0, 0, 10, 0, 1, 0, 0, 0, 0, 0, 1,
         95, 144, 4, 0, 2, 64, 0, 0, 0, 0, 0, 0, 0, 0, 10, 0, 1, 0, 0, 0, 0,
         0, 1, 99, 120, 4, 0, 2, 64, 8, 0, 0, 0, 0, 0, 0, 0, 10, 0, 1, 0, 0,
         0, 0, 0, 1, 103, 96, 4, 0, 2, 0, 0, 0, 0, 0, 0, 0, 0, 0, 10, 0, 1, 0,
         0, 0, 0, 0, 1, 107, 72, 4, 0, 2, 63, 240, 0, 0, 0, 0, 0, 0, 0, 10, 0,
         1, 0, 0, 0, 0, 0, 1, 111, 48, 4, 0, 2, 64, 0, 0, 0, 0, 0, 0, 0, 0,
         10, 0, 1, 0, 0, 0, 0, 0, 1, 115, 24, 4, 0, 2, 64, 8, 0, 0, 0, 0, 0,
         0, 0, 10, 0, 1, 0, 0, 0, 0, 0, 1, 119, 0, 4, 0, 2, 0, 0, 0, 0, 0, 0,
         0, 0, 0, 10, 0, 1, 0, 0, 0, 0, 0, 1, 122, 232, 4, 0, 2, 63, 240, 0,
         0, 0, 0, 0, 0, 0, 10, 0, 1, 0, 0, 0, 0, 0, 1, 126, 208, 4, 0, 2, 64,
         0, 0, 0, 0, 0, 0, 0, 0, 10, 0, 1, 0, 0, 0, 0, 0, 1, 130, 184, 4, 0,
         2, 64, 8, 0, 0, 0, 0, 0, 0, 0, 10, 0, 1, 0, 0, 0, 0, 0, 1, 134, 160,
         4, 0, 2, 0, 0, 0, 0, 0, 0, 0, 0, 0, 10, 0, 1, 0, 0, 0, 0, 0, 1, 138,
         136, 4, 0, 2, 63, 240, 0, 0, 0, 0, 0, 0, 0, 10, 0, 1, 0, 0, 0, 0, 0,
         1, 142, 112, 4, 0, 2, 64, 0, 0, 0, 0, 0, 0, 0, 0, 10, 0, 1, 0, 0, 0,
         0, 0, 1, 146, 88, 4, 0, 2, 64, 8, 0, 0, 0, 0, 0, 0, 0, 10, 0, 1, 0,
         0, 0, 0, 0, 1, 150, 64, 4, 0, 2, 0, 0, 0, 0, 0, 0, 0, 0, 0, 10, 0, 1,
         0, 0, 0, 0, 0, 1, 154, 40, 4, 0, 2, 63, 240, 0, 0, 0, 0, 0, 0, 0, 10,
         0, 1, 0, 0, 0, 0, 0, 1, 158, 16, 4, 0, 2, 64, 0, 0, 0, 0, 0, 0, 0, 0,
         10, 0, 1, 0, 0, 0, 0, 0, 1, 161, 248, 4, 0, 2, 64, 8, 0, 0, 0, 0, 0,
         0, 0, 10, 0, 1, 0, 0, 0, 0, 0, 1, 165, 224, 4, 0, 2, 0, 0, 0, 0, 0,
         0, 0, 0, 0, 10, 0, 1, 0, 0, 0, 0, 0, 1, 169, 200, 4, 0, 2, 63, 240,
         0, 0, 0, 0, 0, 0, 0, 10, 0, 1, 0, 0, 0, 0, 0, 1, 173, 176, 4, 0, 2,
         64, 0, 0, 0, 0, 0, 0, 0, 0, 10, 0, 1, 0, 0, 0, 0, 0, 1, 177, 152, 4,
         0, 2, 64, 8, 0, 0, 0, 0, 0, 0, 0, 10, 0, 1, 0, 0, 0, 0, 0, 1, 181,
         128, 4, 0, 2, 0, 0, 0, 0, 0, 0, 0, 0, 0, 10, 0, 1, 0, 0, 0, 0, 0, 1,
         185, 104, 4, 0, 2, 63, 240, 0, 0, 0, 0, 0, 0, 0, 10, 0, 1, 0, 0, 0,
         0, 0, 1, 189, 80, 4, 0, 2, 64, 0, 0, 0, 0, 0, 0, 0, 0, 10, 0, 1, 0,
         0, 0, 0, 0, 1, 193, 56, 4, 0, 2, 64, 8, 0, 0, 0, 0, 0, 0, 0, 10, 0,
         1, 0, 0, 0, 0, 0, 1, 197, 32, 4, 0, 2, 0, 0, 0, 0, 0, 0, 0, 0, 0, 10,
         0, 1, 0, 0, 0, 0, 0, 1, 201, 8, 4, 0, 2, 63, 240, 0, 0, 0, 0, 0, 0,
         0, 10, 0, 1, 0, 0, 0, 0, 0, 1, 204, 240, 4, 0, 2, 64, 0, 0, 0, 0, 0,
         0, 0, 0, 10, 0, 1, 0, 0, 0, 0, 0, 1, 208, 216, 4, 0, 2, 64, 8, 0, 0,
         0, 0, 0, 0, 0, 10, 0, 1, 0, 0, 0, 0, 0, 1, 212, 192, 4, 0, 2, 0, 0,
         0, 0, 0, 0, 0, 0, 0, 10, 0, 1, 0, 0, 0, 0, 0, 1, 216, 168, 4, 0, 2,
         63, 240, 0, 0, 0, 0, 0, 0, 0, 10, 0, 1, 0, 0, 0, 0, 0, 1, 220, 144,
         4, 0, 2, 64, 0, 0, 0, 0, 0, 0, 0, 0, 10, 0, 1, 0, 0, 0, 0, 0, 1, 224,
         120, 4, 0, 2, 64, 8, 0, 0, 0, 0, 0, 0, 0, 10, 0, 1, 0, 0, 0, 0, 0, 1,
         228, 96, 4, 0, 2, 0, 0, 0, 0, 0, 0, 0, 0, 0, 10, 0, 1, 0, 0, 0, 0, 0,
         1, 232, 72, 4, 0, 2, 63, 240, 0, 0, 0, 0, 0, 0, 0, 10, 0, 1, 0, 0, 0,
         0, 0, 1, 236, 48, 4, 0, 2, 64, 0, 0, 0, 0, 0, 0, 0, 0, 10, 0, 1, 0,
         0, 0, 0, 0, 1, 240, 24, 4, 0, 2, 64, 8, 0, 0, 0, 0, 0, 0, 0, 10, 0,
         1, 0, 0, 0, 0, 0, 1, 244, 0, 4, 0, 2, 0, 0, 0, 0, 0, 0, 0, 0, 0, 10,
         0, 1, 0, 0, 0, 0, 0, 1, 247, 232, 4, 0, 2, 63, 240, 0, 0, 0, 0, 0, 0,
         0, 10, 0, 1, 0, 0, 0, 0, 0, 1, 251, 208, 4, 0, 2, 64, 0, 0, 0, 0, 0,
         0, 0, 0, 10, 0, 1, 0, 0, 0, 0, 0, 1, 255, 184, 4, 0, 2, 64, 8, 0, 0,
         0, 0, 0, 0, 0, 10, 0, 1, 0, 0, 0, 0, 0, 2, 3, 160, 4, 0, 2, 0, 0, 0,
         0, 0, 0, 0, 0, 0, 10, 0, 1, 0, 0, 0, 0, 0, 2, 7, 136, 4, 0, 2, 63,
         240, 0, 0, 0, 0, 0, 0, 0, 10, 0, 1, 0, 0, 0, 0, 0, 2, 11, 112, 4, 0,
         2, 64, 0, 0, 0, 0, 0, 0, 0, 0, 10, 0, 1, 0, 0, 0, 0, 0, 2, 15, 88, 4,
         0, 2, 64, 8, 0, 0, 0, 0, 0, 0, 0, 10, 0, 1, 0, 0, 0, 0, 0, 2, 19, 64,
         4, 0, 2, 0, 0, 0, 0, 0, 0, 0, 0, 0, 10, 0, 1, 0, 0, 0, 0, 0, 2, 23,
         40, 4, 0, 2, 63, 240, 0, 0, 0, 0, 0, 0, 0, 10, 0, 1, 0, 0, 0, 0, 0,
         2, 27, 16, 4, 0, 2, 64, 0, 0, 0, 0, 0, 0, 0, 0, 10, 0, 1, 0, 0, 0, 0,
         0, 2, 30, 248, 4, 0, 2, 64, 8, 0, 0, 0, 0, 0, 0, 0, 10, 0, 1, 0, 0,
         0, 0, 0, 2, 34, 224, 4, 0, 2, 0, 0, 0, 0, 0, 0, 0, 0, 0, 10, 0, 1, 0,
         0, 0, 0, 0, 2, 38, 200, 4, 0, 2, 63, 240, 0, 0, 0, 0, 0, 0, 0, 10, 0,
         1, 0, 0, 0, 0, 0, 2, 42, 176, 4, 0, 2, 64, 0, 0, 0, 0, 0, 0, 0, 0,
         10, 0, 1, 0, 0, 0, 0, 0, 2, 46, 152, 4, 0, 2, 64, 8, 0, 0, 0, 0, 0,
         0, 0, 10, 0, 1, 0, 0, 0, 0, 0, 2, 50, 128, 4, 0, 2, 0, 0, 0, 0, 0, 0,
         0, 0, 0, 10, 0, 1, 0, 0, 0, 0, 0, 2, 54, 104, 4, 0, 2, 63, 240, 0, 0,
         0, 0, 0, 0, 0, 10, 0, 1, 0, 0, 0, 0, 0, 2, 58, 80, 4, 0, 2, 64, 0, 0,
         0, 0, 0, 0, 0, 0, 10, 0, 1, 0, 0, 0, 0, 0, 2, 62, 56, 4, 0, 2, 64, 8,
         0, 0, 0, 0, 0, 0, 0, 10, 0, 1, 0, 0, 0, 0, 0, 2, 66, 32, 4, 0, 2, 0,
         0, 0, 0, 0, 0, 0, 0, 0, 10, 0, 1, 0, 0, 0, 0, 0, 2, 70, 8, 4, 0, 2,
         63, 240, 0, 0, 0, 0, 0, 0, 0, 10, 0, 1, 0, 0, 0, 0, 0, 2, 73, 240, 4,
         0, 2, 64, 0, 0, 0, 0, 0, 0, 0, 0, 0, 0, 0>>,
       <<27, 175, 13, 224, 143, 195, 116, 139, 61, 23, 39, 76, 194, 135, 148,
         35, 84, 250, 34, 30, 149, 238, 100, 248, 69, 14, 59, 221, 249, 20,
         134, 97, 24, 134, 97, 24, 102, 11, 195, 48, 12, 195, 97, 56, 28, 134,
         195, 97, 56, 28, 134, 195, 48, 162, 218, 1, 127, 205, 164, 16, 254,
         226, 25, 7, 64, 49, 4, 94, 180, 122, 112, 8, 157, 252, 34, 4, 4, 0,
         24, 105, 131, 75, 210, 32, 0, 192, 243, 217, 253, 194, 227, 41, 0,
         35, 109, 0, 16, 73, 131, 0, 0, 63, 102, 7, 63, 53, 235, 183, 55, 0,
         224, 188, 24, 0, 211, 40, 0, 0, 0, 96, 17, 92, 104, 53, 155, 65, 178,
         184, 93, 138, 162, 179, 5, 184, 211, 248, 161, 25, 140, 89, 164, 57,
         152, 121, 176, 5, 128, 133, 171, 197, 179, 165, 147, 229, 163, 149,
         131, 213, 157, 181, 181, 245, 133, 141, 169, 205, 145, 173, 23, 219,
         21, 59, 125, 118, 123, 236, 117, 217, 239, 112, 144, 117, 152, 114,
         20, 119, 28, 113, 18, 116, 90, 227, 204, 223, 185, 175, 11, 111, 151,
         158, 174, 244, 174, 53, 110, 148, 110, 101, 238, 196, 238, 5, 30,
         168, 30, 201, 158, 72, 158, 137, 94, 8, 94, 113, 222, 208, 222, 17,
         62, 160, 62, 65, 62, 191, 248, 82, 241, 181, 207, 183, 30, 223, 187,
         252, 232, 240, 51, 235, 87, 202, 239, 184, 63, 17, 127, 131, 254,
         213, 240, 239, 31, 17, 122, 35, 194, 187, 35, 34, 58, 51, 34, 243,
         166, 50, 166, 147, 102, 98, 102, 195, 230, 2, 230, 173, 22, 204, 22,
         77, 150, 140, 150, 13, 86, 116, 86, 213, 214, 20, 214, 165, 54, 68,
         54, 93, 108, 81, 108, 243, 217, 225, 177, 203, 101, 143, 195, 62,
         214, 1, 202, 33, 220, 17, 196, 49, 208, 9, 141, 147, 127, 167, 191,
         206, 190, 157, 127, 186, 216, 187, 220, 184, 90, 186, 158, 185, 25,
         187, 29, 184, 171, 186, 47, 123, 40, 121, 44, 122, 42, 120, 206, 121,
         73, 123, 77, 120, 139, 122, 15, 249, 104, 241, 105, 241, 133, 207,
         87, 30, 223, 184, 124, 231, 240, 3, 235, 39, 202, 47, 184, 223, 16,
         127, 128, 254, 210, 248, 251, 239, 223, 47, 255, 223, 17, 195, 57,
         35, 70, 224, 35, 70, 98, 50, 70, 33, 77, 195, 204, 128, 205, 2, 204,
         94, 205, 157, 205, 159, 44, 28, 45, 30, 44, 237, 44, 175, 173, 44,
         172, 78, 173, 141, 172, 191, 44, 163, 114, 0>>>>,
     \* ChartUpdateMsg("c_env", "s_temp", SeriesResult[Ok(RawSeries(MAX_POINTS_PER_SERIES + 1))].val)
     <<<<8, 0, 1, 0, 0, 0, 2, 12, 0, 4, 11, 0, 1, 0, 0, 0, 5, 99, 95, 101,
         110, 118, 15, 0, 2, 12, 0, 0, 0, 1, 11, 0, 1, 0, 0, 0, 6, 115, 95,
         116, 101, 109, 112, 15, 0, 2, 12, 0, 0, 0, 76, 10, 0, 1, 0, 0, 0, 0,
         0, 0, 7, 208, 4, 0, 2, 63, 248, 0, 0, 0, 0, 0, 0, 0, 10, 0, 1, 0, 0,
         0, 0, 0, 0, 15, 160, 4, 0, 2, 63, 248, 0, 0, 0, 0, 0, 0, 0, 10, 0, 1,
         0, 0, 0, 0, 0, 0, 23, 112, 4, 0, 2, 63, 248, 0, 0, 0, 0, 0, 0, 0, 10,
         0, 1, 0, 0, 0, 0, 0, 0, 31, 64, 4, 0, 2, 63, 248, 0, 0, 0, 0, 0, 0,
         0, 10, 0, 1, 0, 0, 0, 0, 0, 0, 39, 16, 4, 0, 2, 63, 248, 0, 0, 0, 0,
         0, 0, 0, 10, 0, 1, 0, 0, 0, 0, 0, 0, 46, 224, 4, 0, 2, 63, 248, 0, 0,
         0, 0, 0, 0, 0, 10, 0, 1, 0, 0, 0, 0, 0, 0, 54, 176, 4, 0, 2, 63, 248,
         0, 0, 0, 0, 0, 0, 0, 10, 0, 1, 0, 0, 0, 0, 0, 0, 62, 128, 4, 0, 2,
         63, 248, 0, 0, 0, 0, 0, 0, 0, 10, 0, 1, 0, 0, 0, 0, 0, 0, 70, 80, 4,
         0, 2, 63, 248, 0, 0, 0, 0, 0, 0, 0, 10, 0, 1, 0, 0, 0, 0, 0, 0, 78,
         32, 4, 0, 2, 63, 248, 0, 0, 0, 0, 0, 0, 0, 10, 0, 1, 0, 0, 0, 0, 0,
         0, 85, 240, 4, 0, 2, 63, 248, 0, 0, 0, 0, 0, 0, 0, 10, 0, 1, 0, 0, 0,
         0, 0, 0, 93, 192, 4, 0, 2, 63, 248, 0, 0, 0, 0, 0, 0, 0, 10, 0, 1, 0,
         0, 0, 0, 0, 0, 101, 144, 4, 0, 2, 63, 248, 0, 0, 0, 0, 0, 0, 0, 10,
         0, 1, 0, 0, 0, 0, 0, 0, 109, 96, 4, 0, 2, 63, 248, 0, 0, 0, 0, 0, 0,
         0, 10, 0, 1, 0, 0, 0, 0, 0, 0, 117, 48, 4, 0, 2, 63, 248, 0, 0, 0, 0,
         0, 0, 0, 10, 0, 1, 0, 0, 0, 0, 0, 0, 125, 0, 4, 0, 2, 63, 248, 0, 0,
         0, 0, 0, 0, 0, 10, 0, 1, 0, 0, 0, 0, 0, 0, 132, 208, 4, 0, 2, 63,
         248, 0, 0, 0, 0, 0, 0, 0, 10, 0, 1, 0, 0, 0, 0, 0, 0, 140, 160, 4, 0,
         2, 63, 248, 0, 0, 0, 0, 0, 0, 0, 10, 0, 1, 0, 0, 0, 0, 0, 0, 148,
         112, 4, 0, 2, 63, 248, 0, 0, 0, 0, 0, 0, 0, 10, 0, 1, 0, 0, 0, 0, 0,
         0, 156, 64, 4, 0, 2, 63, 248, 0, 0, 0, 0, 0, 0, 0, 10, 0, 1, 0, 0, 0,
         0, 0, 0, 164, 16, 4, 0, 2, 63, 248, 0, 0, 0, 0, 0, 0, 0, 10, 0, 1, 0,
         0, 0, 0, 0, 0, 171, 224, 4, 0, 2, 63, 248, 0, 0, 0, 0, 0, 0, 0, 10,
         0, 1, 0, 0, 0, 0, 0, 0, 179, 176, 4, 0, 2, 63, 248, 0, 0, 0, 0, 0, 0,
         0, 10, 0, 1, 0, 0, 0, 0, 0, 0, 187, 128, 4, 0, 2, 63, 248, 0, 0, 0,
         0, 0, 0, 0, 10, 0, 1, 0, 0, 0, 0, 0, 0, 195, 80, 4, 0, 2, 63, 248, 0,
         0, 0, 0, 0, 0, 0, 10, 0, 1, 0, 0, 0, 0, 0, 0, 203, 32, 4, 0, 2, 63,
         248, 0, 0, 0, 0, 0, 0, 0, 10, 0, 1, 0, 0, 0, 0, 0, 0, 210, 240, 4, 0,
         2, 63, 248, 0, 0, 0, 0, 0, 0, 0, 10, 0, 1, 0, 0, 0, 0, 0, 0, 218,
         192, 4, 0, 2, 63, 248, 0, 0, 0, 0, 0, 0, 0, 10, 0, 1, 0, 0, 0, 0, 0,
         0, 226, 144, 4, 0, 2, 63, 248, 0, 0, 0, 0, 0, 0, 0, 10, 0, 1, 0, 0,
         0, 0, 0, 0, 234, 96, 4, 0, 2, 63, 248, 0, 0, 0, 0, 0, 0, 0, 10, 0, 1,
         0, 0, 0, 0, 0, 0, 242, 48, 4, 0, 2, 63, 248, 0, 0, 0, 0, 0, 0, 0, 10,
         0, 1, 0, 0, 0, 0, 0, 0, 250, 0, 4, 0, 2, 63, 248, 0, 0, 0, 0, 0, 0,
         0, 10, 0, 1, 0, 0, 0, 0, 0, 1, 1, 208, 4, 0, 2, 63, 248, 0, 0, 0, 0,
         0, 0, 0, 10, 0, 1, 0, 0, 0, 0, 0, 1, 9, 160, 4, 0, 2, 63, 248, 0, 0,
         0, 0, 0, 0, 0, 10, 0, 1, 0, 0, 0, 0, 0, 1, 17, 112, 4, 0, 2, 63, 248,
         0, 0, 0, 0, 0, 0, 0, 10, 0, 1, 0, 0, 0, 0, 0, 1, 25, 64, 4, 0, 2, 63,
         248, 0, 0, 0, 0, 0, 0, 0, 10, 0, 1, 0, 0, 0, 0, 0, 1, 33, 16, 4, 0,
         2, 63, 248, 0, 0, 0, 0, 0, 0, 0, 10, 0, 1, 0, 0, 0, 0, 0, 1, 40, 224,
         4, 0, 2, 63, 248, 0, 0, 0, 0, 0, 0, 0, 10, 0, 1, 0, 0, 0, 0, 0, 1,
         48, 176, 4, 0, 2, 63, 248, 0, 0, 0, 0, 0, 0, 0, 10, 0, 1, 0, 0, 0, 0,
         0, 1, 56, 128, 4, 0, 2, 63, 248, 0, 0, 0, 0, 0, 0, 0, 10, 0, 1, 0, 0,
         0, 0, 0, 1, 64, 80, 4, 0, 2, 63, 248, 0, 0, 0, 0, 0, 0, 0, 10, 0, 1,
         0, 0, 0, 0, 0, 1, 72, 32, 4, 0, 2, 63, 248, 0, 0, 0, 0, 0, 0, 0, 10,
         0, 1, 0, 0, 0, 0, 0, 1, 79, 240, 4, 0, 2, 63, 248, 0, 0, 0, 0, 0, 0,
         0, 10, 0, 1, 0, 0, 0, 0, 0, 1, 87, 192, 4, 0, 2, 63, 248, 0, 0, 0, 0,
         0, 0, 0, 10, 0, 1, 0, 0, 0, 0, 0, 1, 95, 144, 4, 0, 2, 63, 248, 0, 0,
         0, 0, 0, 0, 0, 10, 0, 1, 0, 0, 0, 0, 0, 1, 103, 96, 4, 0, 2, 63, 248,
         0, 0, 0, 0, 0, 0, 0, 10, 0, 1, 0, 0, 0, 0, 0, 1, 111, 48, 4, 0, 2,
         63, 248, 0, 0, 0, 0, 0, 0, 0, 10, 0, 1, 0, 0, 0, 0, 0, 1, 119, 0, 4,
         0, 2, 63, 248, 0, 0, 0, 0, 0, 0, 0, 10, 0, 1, 0, 0, 0, 0, 0, 1, 126,
         208, 4, 0, 2, 63, 248, 0, 0, 0, 0, 0, 0, 0, 10, 0, 1, 0, 0, 0, 0, 0,
         1, 134, 160, 4, 0, 2, 63, 248, 0, 0, 0, 0, 0, 0, 0, 10, 0, 1, 0, 0,
         0, 0, 0, 1, 142, 112, 4, 0, 2, 63, 248, 0, 0, 0, 0, 0, 0, 0, 10, 0,
         1, 0, 0, 0, 0, 0, 1, 150, 64, 4, 0, 2, 63, 248, 0, 0, 0, 0, 0, 0, 0,
         10, 0, 1, 0, 0, 0, 0, 0, 1, 158, 16, 4, 0, 2, 63, 248, 0, 0, 0, 0, 0,
         0, 0, 10, 0, 1, 0, 0, 0, 0, 0, 1, 165, 224, 4, 0, 2, 63, 248, 0, 0,
         0, 0, 0, 0, 0, 10, 0, 1, 0, 0, 0, 0, 0, 1, 173, 176, 4, 0, 2, 63,
         248, 0, 0, 0, 0, 0, 0, 0, 10, 0, 1, 0, 0, 0, 0, 0, 1, 181, 128, 4, 0,
         2, 63, 248, 0, 0, 0, 0, 0, 0, 0, 10, 0, 1, 0, 0, 0, 0, 0, 1, 189, 80,
         4, 0, 2, 63, 248, 0, 0, 0, 0, 0, 0, 0, 10, 0, 1, 0, 0, 0, 0, 0, 1,
         197, 32, 4, 0, 2, 63, 248, 0, 0, 0, 0, 0, 0, 0, 10, 0, 1, 0, 0, 0, 0,
         0, 1, 204, 240, 4, 0, 2, 63, 248, 0, 0, 0, 0, 0, 0, 0, 10, 0, 1, 0,
         0, 0, 0, 0, 1, 212, 192, 4, 0, 2, 63, 248, 0, 0, 0, 0, 0, 0, 0, 10,
         0, 1, 0, 0, 0, 0, 0, 1, 220, 144, 4, 0, 2, 63, 248, 0, 0, 0, 0, 0, 0,
         0, 10, 0, 1, 0, 0, 0, 0, 0, 1, 228, 96, 4, 0, 2, 63, 248, 0, 0, 0, 0,
         0, 0, 0, 10, 0, 1, 0, 0, 0, 0, 0, 1, 236, 48, 4, 0, 2, 63, 248, 0, 0,
         0, 0, 0, 0, 0, 10, 0, 1, 0, 0, 0, 0, 0, 1, 244, 0, 4, 0, 2, 63, 248,
         0, 0, 0, 0, 0, 0, 0, 10, 0, 1, 0, 0, 0, 0, 0, 1, 251, 208, 4, 0, 2,
         63, 248, 0, 0, 0, 0, 0, 0, 0, 10, 0, 1, 0, 0, 0, 0, 0, 2, 3, 160, 4,
         0, 2, 63, 248, 0, 0, 0, 0, 0, 0, 0, 10, 0, 1, 0, 0, 0, 0, 0, 2, 11,
         112, 4, 0, 2, 63, 248, 0, 0, 0, 0, 0, 0, 0, 10, 0, 1, 0, 0, 0, 0, 0,
         2, 19, 64, 4, 0, 2, 63, 248, 0, 0, 0, 0, 0, 0, 0, 10, 0, 1, 0, 0, 0,
         0, 0, 2, 27, 16, 4, 0, 2, 63, 248, 0, 0, 0, 0, 0, 0, 0, 10, 0, 1, 0,
         0, 0, 0, 0, 2, 34, 224, 4, 0, 2, 63, 248, 0, 0, 0, 0, 0, 0, 0, 10, 0,
         1, 0, 0, 0, 0, 0, 2, 42, 176, 4, 0, 2, 63, 248, 0, 0, 0, 0, 0, 0, 0,
         10, 0, 1, 0, 0, 0, 0, 0, 2, 50, 128, 4, 0, 2, 63, 248, 0, 0, 0, 0, 0,
         0, 0, 10, 0, 1, 0, 0, 0, 0, 0, 2, 58, 80, 4, 0, 2, 63, 248, 0, 0, 0,
         0, 0, 0, 0, 10, 0, 1, 0, 0, 0, 0, 0, 2, 66, 32, 4, 0, 2, 63, 248, 0,
         0, 0, 0, 0, 0, 0, 10, 0, 1, 0, 0, 0, 0, 0, 2, 73, 240, 4, 0, 2, 63,
         248, 0, 0, 0, 0, 0, 0, 0, 10, 0, 1, 0, 0, 0, 0, 0, 2, 77, 216, 4, 0,
         2, 64, 8, 0, 0, 0, 0, 0, 0, 0, 0, 0, 0>>,
       <<27, 9, 7, 248, 143, 210, 28, 180, 152, 35, 57, 186, 158, 143, 191,
         223, 239, 220, 247, 85, 13, 147, 196, 72, 38, 201, 36, 65, 98, 36,
         70, 98, 36, 241, 196, 72, 140, 196, 72, 140, 36, 158, 24, 137, 145,
         24, 137, 145, 224, 213, 25, 12, 118, 163, 0, 3, 124, 192, 0, 3, 91,
         128, 1, 6, 24, 96, 128, 1, 62, 224, 227, 48, 192, 112, 68, 147, 3,
         110, 49, 30, 190, 113, 194, 1, 98, 224, 245, 1, 16, 144, 176, 140,
         47, 54, 8, 0, 138, 15, 116, 30, 16, 0, 140, 161, 119, 100, 98, 65, 4,
         138, 15, 0, 225, 1, 1, 192, 156, 125, 151, 83, 183, 61, 55, 0, 214,
         227, 5, 170, 244, 3, 0, 0, 44, 218, 179, 202, 108, 98, 187, 208, 193,
         118, 178, 92, 116, 55, 136, 59, 200, 93, 227, 158, 237, 145, 240,
         184, 122, 126, 121, 9, 188, 114, 188, 150, 222, 48, 111, 177, 143,
         208, 39, 237, 179, 242, 133, 251, 74, 124, 67, 126, 30, 191, 109,
         127, 132, 191, 212, 63, 97, 254, 33, 19, 114, 204, 73, 75, 204, 26,
         182, 5, 237, 110, 135, 203, 105, 119, 89, 220, 68, 238, 28, 119, 111,
         247, 133, 199, 212, 147, 203, 139, 224, 229, 227, 213, 244, 186, 121,
         147, 189, 131, 62, 110, 159, 150, 207, 221, 151, 226, 107, 242, 237,
         248, 117, 251, 61, 252, 169, 254, 94, 254, 5, 255, 31, 51, 69, 75,
         243, 204, 50, 182, 14, 109, 109, 123, 203, 81, 119, 86, 92, 37, 55,
         79, 181, 127, 91, 190, 33>>>>,
     \* CompleteMsg(0, FenceDelayMs)
     <<<<8, 0, 1, 0, 0, 0, 3, 12, 0, 5, 8, 0, 1, 0, 0, 0, 0, 10, 0, 2, 0, 0,
         0, 0, 0, 0, 19, 136, 0, 0>>,
       <<27, 29, 0, 248, 143, 83, 44, 40, 234, 16, 110, 56, 164, 36, 159, 64,
         44, 81, 38, 10, 4, 110, 4, 234, 244, 8, 88, 201, 3>>>>,
     \* CompleteMsg(0, FenceDelayMs + 1)
     <<<<8, 0, 1, 0, 0, 0, 3, 12, 0, 5, 8, 0, 1, 0, 0, 0, 0, 10, 0, 2, 0, 0,
         0, 0, 0, 0, 19, 137, 0, 0>>,
       <<27, 29, 0, 248, 143, 83, 44, 40, 234, 16, 110, 56, 164, 36, 159, 72,
         44, 81, 38, 10, 4, 110, 4, 234, 244, 8, 88, 201, 3>>>>,
     \* CompleteMsg(0, FenceDelayMs + 2)
     <<<<8, 0, 1, 0, 0, 0, 3, 12, 0, 5, 8, 0, 1, 0, 0, 0, 0, 10, 0, 2, 0, 0,
         0, 0, 0, 0, 19, 138, 0, 0>>,
       <<27, 29, 0, 248, 143, 83, 44, 40, 234, 16, 110, 56, 164, 36, 159, 80,
         44, 81, 38, 10, 4, 110, 4, 234, 244, 8, 88, 201, 3>>>>,
     \* CompleteMsg(0, FenceDelayMs + 3)
     <<<<8, 0, 1, 0, 0, 0, 3, 12, 0, 5, 8, 0, 1, 0, 0, 0, 0, 10, 0, 2, 0, 0,
         0, 0, 0, 0, 19, 139, 0, 0>>,
       <<27, 29, 0, 248, 143, 83, 44, 40, 234, 16, 110, 56, 164, 36, 159, 88,
         44, 81, 38, 10, 4, 110, 4, 234, 244, 8, 88, 201, 3>>>>,
     \* CompleteMsg(1, FenceDelayMs)
     <<<<8, 0, 1, 0, 0, 0, 3, 12, 0, 5, 8, 0, 1, 0, 0, 0, 1, 10, 0, 2, 0, 0,
         0, 0, 0, 0, 19, 136, 0, 0>>,
       <<27, 29, 0, 248, 143, 83, 44, 40, 234, 16, 55, 77, 21, 65, 100, 223,
         2, 177, 68, 153, 40, 16, 184, 21, 244, 51, 43, 200, 41, 62>>>>,
     \* CompleteMsg(1, FenceDelayMs + 1)
     <<<<8, 0, 1, 0, 0, 0, 3, 12, 0, 5, 8, 0, 1, 0, 0, 0, 1, 10, 0, 2, 0, 0,
         0, 0, 0, 0, 19, 137, 0, 0>>,
       <<27, 29, 0, 248, 143, 83, 44, 40, 234, 16, 55, 77, 21, 65, 100, 223,
         34, 177, 68, 153, 40, 16, 184, 21, 244, 51, 43, 200, 41, 62>>>>,
     \* CompleteMsg(1, FenceDelayMs + 2)
     <<<<8, 0, 1, 0, 0, 0, 3, 12, 0, 5, 8, 0, 1, 0, 0, 0, 1, 10, 0, 2, 0, 0,
         0, 0, 0, 0, 19, 138, 0, 0>>,
       <<27, 29, 0, 248, 143, 83, 44, 40, 234, 16, 55, 77, 21, 65, 100, 223,
         66, 177, 68, 153, 40, 16, 184, 21, 244, 51, 43, 200, 41, 62>>>>,
     \* CompleteMsg(1, FenceDelayMs + 3)
     <<<<8, 0, 1, 0, 0, 0, 3, 12, 0, 5, 8, 0, 1, 0, 0, 0, 1, 10, 0, 2, 0, 0,
         0, 0, 0, 0, 19, 139, 0, 0>>,
       <<27, 29, 0, 248, 143, 83, 44, 40, 234, 16, 55, 77, 21, 65, 100, 223,
         98, 177, 68, 153, 40, 16, 184, 21, 244, 51, 43, 200, 41, 62>>>>,
     \* CompleteMsg(2, FenceDelayMs)
     <<<<8, 0, 1, 0, 0, 0, 3, 12, 0, 5, 8, 0, 1, 0, 0, 0, 2, 10, 0, 2, 0, 0,
         0, 0, 0, 0, 19, 136, 0, 0>>,
       <<27, 29, 0, 248, 143, 83, 44, 40, 234, 16, 110, 56, 164, 36, 159, 64,
         44, 81, 38, 10, 4, 110, 4, 234, 244, 8, 228, 74, 30>>>>,
     \* CompleteMsg(2, FenceDelayMs + 1)
     <<<<8, 0, 1, 0, 0, 0, 3, 12, 0, 5, 8, 0, 1, 0, 0, 0, 2, 10, 0, 2, 0, 0,
         0, 0, 0, 0, 19, 137, 0, 0>>,
       <<27, 29, 0, 248, 143, 83, 44, 40, 234, 16, 110, 56, 164, 36, 159, 72,
         44, 81, 38, 10, 4, 110, 4, 234, 244, 8, 228, 74, 30>>>>,
     \* CompleteMsg(2, FenceDelayMs + 2)
     <<<<8, 0, 1, 0, 0, 0, 3, 12, 0, 5, 8, 0, 1, 0, 0, 0, 2, 10, 0, 2, 0, 0,
         0, 0, 0, 0, 19, 138, 0, 0>>,
       <<27, 29, 0, 248, 143, 83, 44, 40, 234, 16, 110, 56, 164, 36, 159, 80,
         44, 81, 38, 10, 4, 110, 4, 234, 244, 8, 228, 74, 30>>>>,
     \* CompleteMsg(2, FenceDelayMs + 3)
     <<<<8, 0, 1, 0, 0, 0, 3, 12, 0, 5, 8, 0, 1, 0, 0, 0, 2, 10, 0, 2, 0, 0,
         0, 0, 0, 0, 19, 139, 0, 0>>,
       <<27, 29, 0, 248, 143, 83, 44, 40, 234, 16, 110, 56, 164, 36, 159, 88,
         44, 81, 38, 10, 4, 110, 4, 234, 244, 8, 228, 74, 30>>>>,
     \* CompleteMsg(3, FenceDelayMs)
     <<<<8, 0, 1, 0, 0, 0, 3, 12, 0, 5, 8, 0, 1, 0, 0, 0, 3, 10, 0, 2, 0, 0,
         0, 0, 0, 0, 19, 136, 0, 0>>,
       <<27, 29, 0, 248, 143, 83, 44, 40, 234, 16, 110, 56, 164, 36, 159, 64,
         204, 24, 68, 41, 40, 20, 152, 17, 168, 211, 172, 68, 15>>>>,
     \* CompleteMsg(3, FenceDelayMs + 1)
     <<<<8, 0, 1, 0, 0, 0, 3, 12, 0, 5, 8, 0, 1, 0, 0, 0, 3, 10, 0, 2, 0, 0,
         0, 0, 0, 0, 19, 137, 0, 0>>,
       <<27, 29, 0, 248, 143, 83, 44, 40, 234, 16, 110, 56, 164, 36, 159, 72,
         204, 24, 68, 41, 40, 20, 152, 17, 168, 211, 172, 68, 15>>>>,
     \* CompleteMsg(3, FenceDelayMs + 2)
     <<<<8, 0, 1, 0, 0, 0, 3, 12, 0, 5, 8, 0, 1, 0, 0, 0, 3, 10, 0, 2, 0, 0,
         0, 0, 0, 0, 19, 138, 0, 0>>,
       <<27, 29, 0, 248, 143, 83, 44, 40, 234, 16, 110, 56, 164, 36, 159, 80,
         204, 24, 68, 41, 40, 20, 152, 17, 168, 211, 172, 68, 15>>>>,
     \* CompleteMsg(3, FenceDelayMs + 3)
     <<<<8, 0, 1, 0, 0, 0, 3, 12, 0, 5, 8, 0, 1, 0, 0, 0, 3, 10, 0, 2, 0, 0,
         0, 0, 0, 0, 19, 139, 0, 0>>,
       <<27, 29, 0, 248, 143, 83, 44, 40, 234, 16, 110, 56, 164, 36, 159, 88,
         204, 24, 68, 41, 40, 20, 152, 17, 168, 211, 172, 68, 15>>>>
    }

\* BrotliEncoder::new(Cursor::new(&buffer)) read to its end
BrotliEncoder(buffer) == (CHOOSE e \in BrotliReference : e[1] = buffer)[2]

\* a little-endian length prefix
put_u32_LittleEndian(n) == <<n % 256, (n \div 256) % 256, (n \div 65536) % 256,
                            (n \div 16777216) % 256>>

\* BufMut::put_u32: the four low-order bytes, most significant first
put_u32(n) == BigEndian(n, 4)

\* a frame whose length prefix counts the buffer before compression
serialize_chunk_PrefixOfBuffer(msg, compress) ==
    LET buffer == write_to_out_protocol(msg)
        payload == IF compress THEN BrotliEncoder(buffer) ELSE buffer
    IN  Ok(put_u32(Len(buffer)) \o payload)

\* serialize_chunk(msg, compress)
serialize_chunk(msg, compress) ==
    LET buffer == write_to_out_protocol(msg)
        payload == IF compress THEN BrotliEncoder(buffer) ELSE buffer
        length == Len(payload)
    IN  Ok(put_u32(length) \o payload)

\* the stream adapter of chunked_thrift_stream applies serialize_chunk to a
\* message the receiver yielded; what the encoder returned is kept beside
\* the frame
SerializeChunk ==
    /\ frame.msg # None
    /\ frame.chunk = None
    /\ frame' = [frame EXCEPT
                    !.encoded = IF frame.compress
                                THEN Some(BrotliEncoder(write_to_out_protocol(frame.msg[1])))
                                ELSE None,
                    !.chunk = Some(serialize_chunk(frame.msg[1], frame.compress))]
    /\ UNCHANGED <<widgets_config, aquarium_id, hours, pc, k, available_probes,
                   total_widgets, units, fence, chan, tx_main, rx, wire, issued,
                   accept_encoding, compress_flag, http_response, body, call>>

---------------------------------------------------------------------------
(* The handler and the response: handlers.rs stream_dashboard,             *)
(* chunked_thrift.rs stream_from_receiver and chunked_thrift_stream        *)
(*                                                                         *)
(* A header value is its bytes as characters and whether all of them are   *)
(* visible ASCII, which is when HeaderValue::to_str succeeds.              *)

\* str::contains
Contains(s, pat) == Find(s, pat) # None

\* headers.get("accept-encoding").and_then(|v| v.to_str().ok())
\*     .map(|s| s.contains("br")).unwrap_or(false)
AcceptsBrotli(header) ==
    IF header = None THEN FALSE
    ELSE IF ~header[1].visible THEN FALSE
    ELSE Contains(header[1].text, <<"b", "r">>)

\* the handler reads the Accept-Encoding header of the request
NegotiateCompression ==
    /\ pc = "handler"
    /\ compress_flag = None
    /\ compress_flag' = Some(AcceptsBrotli(accept_encoding))
    /\ UNCHANGED <<widgets_config, aquarium_id, hours, pc, k, available_probes,
                   total_widgets, units, fence, chan, tx_main, rx, wire, issued,
                   frame, accept_encoding, http_response, body, call>>

\* response headers that declare the compression of the frames
ResponseHeaders_Declared(compress) ==
    {<<"content-type", "application/x-thrift">>, <<"transfer-encoding", "chunked">>}
    \cup (IF compress THEN {<<"content-encoding", "br">>} ELSE {})

\* the headers chunked_thrift_stream gives the response builder
ResponseHeaders(compress) ==
    {<<"content-type", "application/x-thrift">>, <<"transfer-encoding", "chunked">>}

\* StatusCode::OK
StatusOk == 200

\* chunked_thrift_stream up to the response it returns; the body is the
\* stream of frames, filled as the receiver yields
chunked_thrift_stream(compress) ==
    Ok([status |-> StatusOk, headers |-> ResponseHeaders(compress)])

\* a closure that leaves short messages uncompressed
ThenClosure_SkipShort(msg, compress) ==
    serialize_chunk(msg, compress /\ Len(write_to_out_protocol(msg)) > 32)

\* the closure of stream.then: it captured `compress` when the response was
\* built and hands it to serialize_chunk with every message
ThenClosure(msg, compress) == serialize_chunk(msg, compress)


\* Accept-Encoding of the request: absent, without br, br alone, br in a
\* list, a token that contains br, and a value to_str rejects
HeaderValue(text, visible) == [text |-> text, visible |-> visible]

AcceptEncodings ==
    {None,
     Some(HeaderValue(<<"g", "z", "i", "p">>, TRUE)),
     Some(HeaderValue(<<"b", "r">>, TRUE)),
     Some(HeaderValue(<<"g", "z", "i", "p", ",", " ", "b", "r">>, TRUE)),
     Some(HeaderValue(<<"b", "r", "o", "t">>, TRUE)),
     Some(HeaderValue(<<"b", "r", "\\xFF">>, FALSE))}

\* with `compress` computed the handler calls
\* streaming_service.stream_dashboard(&id, hours), which runs up to its
\* probe fetch
CallStreamDashboard ==
    /\ pc = "handler"
    /\ compress_flag # None
    /\ pc' = "fetch"
    /\ UNCHANGED <<widgets_config, aquarium_id, hours, k, available_probes,
                   total_widgets, units, fence, chan, tx_main, rx, wire, issued,
                   frame, accept_encoding, compress_flag, http_response, body, call>>

\* stream_from_receiver calls chunked_thrift_stream and returns its response
BuildResponse ==
    /\ pc = "returned"
    /\ compress_flag # None
    /\ http_response = None
    /\ LET built == chunked_thrift_stream(compress_flag[1])
       IN  http_response' = Some(IF built.ok THEN built.val
                                 ELSE [status |-> 500, headers |-> {}])
    /\ UNCHANGED <<widgets_config, aquarium_id, hours, pc, k, available_probes,
                   total_widgets, units, fence, chan, tx_main, rx, wire, issued,
                   frame, accept_encoding, compress_flag, body, call>>

\* a body that writes the newest message of the channel first
YieldFrame_NewestFirst ==
    /\ http_response # None
    /\ rx = "open"
    /\ chan # <<>>
    /\ body' = Append(body, ThenClosure(chan[Len(chan)], compress_flag[1]).val)
    /\ wire' = Append(wire, chan[Len(chan)])
    /\ chan' = SubSeq(chan, 1, Len(chan) - 1)
    /\ UNCHANGED <<widgets_config, aquarium_id, hours, pc, k, available_probes,
                   total_widgets, units, fence, tx_main, rx, issued, frame,
                   accept_encoding, compress_flag, http_response, call>>

\* the body is polled: the receiver yields a message, the closure turns it
\* into a frame, the frame is written to the connection
YieldFrame ==
    /\ http_response # None
    /\ rx = "open"
    /\ chan # <<>>
    /\ body' = Append(body, ThenClosure(Head(chan), compress_flag[1]).val)
    /\ wire' = Append(wire, Head(chan))
    /\ chan' = Tail(chan)
    /\ UNCHANGED <<widgets_config, aquarium_id, hours, pc, k, available_probes,
                   total_widgets, units, fence, tx_main, rx, issued, frame,
                   accept_encoding, compress_flag, http_response, call>>

---------------------------------------------------------------------------

Next ==
    \/ FetchProbes
    \/ SendSkeleton
    \/ SpawnItem
    \/ SpawnDone
    \/ SpawnFence
    \/ ReturnReceiver
    \/ \E i \in UnitIds : UnitStart(i)
    \/ \E i \in UnitIds : UnitQueryReturns(i)
    \/ \E i \in UnitIds : UnitSend(i)
    \/ FenceElapse
    \/ FenceSend
    \/ ConsumerRecv
    \/ ConsumerEnd
    \/ ConsumerDisconnect

Spec == Init /\ [][Next]_vars

\* the steps of the completion task
Fence == FenceElapse \/ FenceSend

\* Scheduling: the runtime polls the completion task, so its timer fires and
\* its send on a channel with a free permit completes; the consumer keeps
\* polling the receiver. Nothing is assumed of the repository: a query may
\* never return.
FairSpec ==
    /\ Spec
    /\ WF_vars(Fence)
    /\ WF_vars(ConsumerRecv)

\* the send of a query task that holds an update
TaskSend == \E i \in UnitIds : UnitSend(i)

\* FairSpec, and the runtime also keeps polling the query tasks: the send of
\* a task whose query has returned data completes when the channel has a
\* free permit. A query may still never return.
FairSpecTasks ==
    /\ FairSpec
    /\ WF_vars(TaskSend)

\* a step of a task that is ready to run: the completion task, the send of
\* a query task that holds an update, the consumer's poll of the receiver
ReadyStep == Fence \/ TaskSend \/ ConsumerRecv \/ ConsumerEnd

\* the runtime runs a task that stays ready. Nothing is assumed of the
\* repository: a query may never return.
FairSpecToEnd ==
    /\ Spec
    /\ WF_vars(ReadyStep)

\* the requests whose probe fetch fails
NextFetchFails ==
    \/ FetchProbesReturns(Err)
    \/ SendSkeleton
    \/ SpawnItem
    \/ SpawnDone
    \/ SpawnFence
    \/ ReturnReceiver
    \/ \E i \in UnitIds : UnitStart(i)
    \/ \E i \in UnitIds : UnitQueryReturns(i)
    \/ \E i \in UnitIds : UnitSend(i)
    \/ FenceElapse
    \/ FenceSend
    \/ ConsumerRecv
    \/ ConsumerEnd
    \/ ConsumerDisconnect

\* those requests under a runtime that keeps polling the completion task
FairSpecFetchFails ==
    /\ Init
    /\ [][NextFetchFails]_vars
    /\ WF_vars(Fence)

\* the head of a request, up to the Skeleton, over every catalog of the model
InitSkeleton ==
    /\ widgets_config \in Catalogs
    /\ aquarium_id \in AquariumIds
    /\ hours \in {HandlerHours(h) : h \in HoursParams}
    /\ pc = "fetch"
    /\ k = 1
    /\ available_probes = {}
    /\ total_widgets = 0
    /\ units = <<>>
    /\ fence = [st |-> "unspawned", msg |-> None]
    /\ chan = <<>>
    /\ tx_main = TRUE
    /\ rx = "held"
    /\ wire = <<>>
    /\ issued = EmptyBag
    /\ frame = NoFrame
    /\ accept_encoding = None
    /\ compress_flag = None
    /\ http_response = None
    /\ body = <<>>
    /\ call = NoCall

NextSkeleton == FetchProbes \/ SendSkeleton

SpecSkeleton == InitSkeleton /\ [][NextSkeleton]_vars

\* the messages one call of serialize_chunk is checked on: the Skeleton of
\* every catalog under every probe set, TileUpdates, ChartUpdates of short
\* series and of one at and one above the downsampling threshold, Complete
FrameMessages ==
    {SkeletonMsg(build_skeleton(cfg, aq, probes)) :
        cfg \in Catalogs, aq \in AquariumIds, probes \in SUBSET AllProbes}
    \cup {TileUpdateMsg(t.id, v) : t \in Range(TileDefs), v \in {F64Of(21, 1), F64Of(0, 1), F64Of(0 - 5, 3)}}
    \cup {ChartUpdateMsg("c_env", s.id, RawSeries(n)) :
             s \in Range(SeriesDefs), n \in {1, MaxRows + 1}}
    \cup {ChartUpdateMsg("c_env", "s_temp", points) :
             points \in {RawSeries(MAX_POINTS_PER_SERIES),
                         SeriesResult[Ok(RawSeries(MAX_POINTS_PER_SERIES + 1))].val}}
    \cup {CompleteMsg(n, d) : n \in 0..MaxUnits, d \in Durations}

\* one message handed to the stream adapter, compression negotiated or not;
\* the request that produced it plays no part
InitFrame ==
    /\ widgets_config = Catalog({}, {}, {})
    /\ aquarium_id \in AquariumIds
    /\ hours = DefaultHours
    /\ pc = "returned"
    /\ k = 1
    /\ available_probes = {}
    /\ total_widgets = 0
    /\ units = <<>>
    /\ fence = [st |-> "done", msg |-> None]
    /\ chan = <<>>
    /\ tx_main = FALSE
    /\ rx = "open"
    /\ wire = <<>>
    /\ issued = EmptyBag
    /\ frame \in {[msg |-> Some(m), compress |-> c, encoded |-> None, chunk |-> None] :
                     m \in FrameMessages, c \in BOOLEAN}
    /\ accept_encoding = None
    /\ compress_flag = None
    /\ http_response = None
    /\ body = <<>>
    /\ call = NoCall

NextFrame == SerializeChunk

SpecFrame == InitFrame /\ [][NextFrame]_vars

\* the catalogs of the requests of the response specification: no widget,
\* and a tile and a chart of one series
ResponseCatalogs == {Catalog({}, {}, {}), Catalog({1}, {1}, {})}

\* a request whose Accept-Encoding is any of AcceptEncodings, before the
\* handler has run
InitResponse ==
    /\ widgets_config \in ResponseCatalogs
    /\ aquarium_id \in AquariumIds
    /\ hours \in {HandlerHours(h) : h \in HoursParams}
    /\ pc = "handler"
    /\ k = 1
    /\ available_probes = {}
    /\ total_widgets = 0
    /\ units = <<>>
    /\ fence = [st |-> "unspawned", msg |-> None]
    /\ chan = <<>>
    /\ tx_main = TRUE
    /\ rx = "held"
    /\ wire = <<>>
    /\ issued = EmptyBag
    /\ frame = NoFrame
    /\ accept_encoding \in AcceptEncodings
    /\ compress_flag = None
    /\ http_response = None
    /\ body = <<>>
    /\ call = NoCall

\* the handler, the service it calls with the tasks the service spawns, and
\* the body of the response the handler returns, polled while the tasks run
NextResponse ==
    \/ NegotiateCompression
    \/ CallStreamDashboard
    \/ FetchProbes
    \/ SendSkeleton
    \/ SpawnItem
    \/ SpawnDone
    \/ SpawnFence
    \/ ReturnReceiver
    \/ \E i \in UnitIds : UnitStart(i)
    \/ \E i \in UnitIds : UnitQueryReturns(i)
    \/ \E i \in UnitIds : UnitSend(i)
    \/ FenceElapse
    \/ FenceSend
    \/ BuildResponse
    \/ YieldFrame
    \/ ConsumerEnd

SpecResponse == InitResponse /\ [][NextResponse]_vars

\* query tasks still running when the channel has filled up
MaxWaiting == 1

\* ids of the tiles of a large catalog
BusyTileIds ==
    <<"t001", "t002", "t003", "t004", "t005", "t006", "t007", "t008", "t009", "t010",
      "t011", "t012", "t013", "t014", "t015", "t016", "t017", "t018", "t019", "t020",
      "t021", "t022", "t023", "t024", "t025", "t026", "t027", "t028", "t029", "t030",
      "t031", "t032", "t033", "t034", "t035", "t036", "t037", "t038", "t039", "t040",
      "t041", "t042", "t043", "t044", "t045", "t046", "t047", "t048", "t049", "t050",
      "t051", "t052", "t053", "t054", "t055", "t056", "t057", "t058", "t059", "t060",
      "t061", "t062", "t063", "t064", "t065", "t066", "t067", "t068", "t069", "t070",
      "t071", "t072", "t073", "t074", "t075", "t076", "t077", "t078", "t079", "t080",
      "t081", "t082", "t083", "t084", "t085", "t086", "t087", "t088", "t089", "t090",
      "t091", "t092", "t093", "t094", "t095", "t096", "t097", "t098", "t099", "t100",
      "t101", "t102", "t103", "t104", "t105">>

\* a catalog of temperature tiles, as many as fill the channel behind the
\* Skeleton plus MaxWaiting more, and no series
BusyCatalog ==
    [tiles |-> [i \in 1..(ChannelCapacity - 1 + MaxWaiting) |->
                   TileConfig(BusyTileIds[i], "Temperature", "C", 1,
                              QueryTypeName(<<"T">>, <<"a">>))],
     charts |-> <<ChartConfig("c_env", "Environment", None, "line", <<>>),
                  ChartConfig("c_orp", "ORP", Some("mV"), "multi", <<>>)>>]

\* the task spawned for the i-th tile of the catalog, as SpawnItem builds it
BusyUnit(i, aq, h, order) ==
    LET item == WorkList(BusyCatalog)[i]
    IN  [kind |-> item.kind, tile_id |-> item.tile_id,
         chart_id |-> item.chart_id, series_id |-> item.series_id,
         query |-> prepare_tile_query(item.query, aq, h, order),
         st |-> "spawned", result |-> None, msg |-> None]

\* that task after its query returned a value and its update was sent
BusyUnitDone(i, aq, h, order) ==
    [UnitAfterQuery(BusyUnit(i, aq, h, order), Ok(Some(F64Of(21, 1))))
        EXCEPT !.st = "done"]

\* a request for the large catalog with a consumer that holds the stream
\* and has not received yet: stream_dashboard has returned, every task but
\* the last MaxWaiting ones has sent its update, and the Skeleton and these
\* updates fill the channel
InitBackpressure ==
    /\ widgets_config = BusyCatalog
    /\ aquarium_id \in AquariumIds
    /\ hours \in {HandlerHours(h) : h \in HoursParams}
    /\ pc = "returned"
    /\ k = Len(WorkList(BusyCatalog)) + 1
    /\ available_probes = AllProbes
    /\ total_widgets = Len(BusyCatalog.tiles)
    /\ \E order \in VarOrders :
          /\ units = [i \in 1..Len(BusyCatalog.tiles) |->
                         IF i < ChannelCapacity
                         THEN BusyUnitDone(i, aquarium_id, hours, order)
                         ELSE BusyUnit(i, aquarium_id, hours, order)]
          /\ issued = [c \in {RepoCall(BusyUnit(1, aquarium_id, hours, order))}
                          |-> ChannelCapacity - 1]
    /\ fence = [st |-> "sleeping", msg |-> None]
    /\ chan = <<SkeletonMsg(build_skeleton(BusyCatalog, aquarium_id, AllProbes))>>
              \o [i \in 1..(ChannelCapacity - 1) |-> units[i].msg[1]]
    /\ tx_main = FALSE
    /\ rx = "open"
    /\ wire = <<>>
    /\ frame = NoFrame
    /\ accept_encoding = None
    /\ compress_flag = None
    /\ http_response = None
    /\ body = <<>>
    /\ call = NoCall

NextBackpressure ==
    \/ \E i \in UnitIds : UnitStart(i)
    \/ \E i \in UnitIds : UnitQueryReturns(i)
    \/ \E i \in UnitIds : UnitSend(i)
    \/ FenceElapse
    \/ FenceSend
    \/ ConsumerRecv
    \/ ConsumerEnd
    \/ ConsumerDisconnect

SpecBackpressure == InitBackpressure /\ [][NextBackpressure]_vars

---------------------------------------------------------------------------
(* Calls of the functions without state: one call, its arguments drawn from *)
(* the sets below, and what it returns                                      *)

Call(op, args) == [op |-> op, args |-> args, ret |-> None]

\* queries for the availability filter: both tags, the name before the type,
\* a name no probe has, the type alone, a type no probe has, an unquoted type
\* tag with and without a name, a name whose quote is never closed, an empty
\* type, no text at all
FilterQueries ==
    {QueryTypeName(<<"T">>, <<"a">>),
     QueryTypeName(<<"P">>, <<"b">>),
     QueryTypeName(<<"P">>, <<"q">>),
     FragName \o <<"z">> \o FragAnd \o FragType \o <<"P">> \o <<"'">>,
     QueryTypeOnly(<<"P">>),
     QueryTypeOnly(<<"O">>),
     QueryNoType(<<"T">>, <<"a">>),
     FragHost \o FragBareType \o <<"T">> \o <<"'">>,
     FragType \o <<"P">> \o FragAnd \o FragName \o <<"b">>,
     FragType \o <<"'">> \o <<" ">> \o FragTime,
     <<>>}

FilterCalls ==
    {Call("is_probe_available", <<q, P>>) : q \in FilterQueries, P \in SUBSET AllProbes}

\* values of the points of a downsampler input
SampleValues == {F64Of(1, 10), F64Of(1, 5), F64Of(3, 10)}

\* inputs of n points, one a second, of any of the values
SamplePoints(n) ==
    {[i \in 1..n |-> TimeSeriesPoint(1000 * i, v[i])] : v \in [1..n -> SampleValues]}

\* timestamps of the points of a downsampler input: equal ones, a gap
SampleTimes == {0, 1000, 2500}

\* inputs of n points of one value with any of the timestamps, in any order
TimedPoints(n) ==
    {[i \in 1..n |-> TimeSeriesPoint(t[i], Readings[1])] : t \in [1..n -> SampleTimes]}

\* bounds from zero to above the longest input
DownsampleCalls ==
    {Call("downsample_points", <<points, max_points>>) :
        points \in UNION {SamplePoints(n) \cup TimedPoints(n) : n \in 0..MaxPoints},
        max_points \in 0..(MaxPoints + 1)}

\* InfluxRepository::downsample_points(points, max_points)
CallDownsamplePoints ==
    /\ call.op = "downsample_points"
    /\ call.ret = None
    /\ call' = [call EXCEPT !.ret = Some(downsample_points(call.args[1], call.args[2]))]
    /\ UNCHANGED <<widgets_config, aquarium_id, hours, pc, k, available_probes,
                   total_widgets, units, fence, chan, tx_main, rx, wire, issued,
                   frame, accept_encoding, compress_flag, http_response, body>>

\* the pieces templates are put together from: the two placeholders of the
\* service, a placeholder of an unknown key, one of the key h, plain text
\* and an opened placeholder
TemplateFragments ==
    {Placeholder(KeySource), Placeholder(KeyHours),
     Placeholder(<<"z", "o", "n", "e">>), Placeholder(<<"h">>),
     <<"h">>, <<"$", "{">>}

Templates ==
    UNION {{Concat(parts) : parts \in [1..n -> TemplateFragments]} : n \in 0..MaxParts}

\* source ids of the request path: a plain one, the name of a key, one that
\* reads as a placeholder
SourceIds == {<<"r", "e", "e", "f">>, KeyHours, Placeholder(KeyHours)}

TileQueryCalls ==
    {Call("prepare_tile_query", <<template, aq, hrs>>) :
        template \in Templates, aq \in SourceIds, hrs \in {DefaultHours, 12, 0 - 1}}

\* variable maps with the keys h and hours, the value of hours plain or
\* reading as the placeholder of h
KeyH == <<"h">>

PrefixKeyMaps ==
    {(KeyH :> vh) @@ (KeyHours :> vhours) :
        vh \in {<<"1">>, <<"7", "d">>},
        vhours \in {<<"1", "2">>, Placeholder(KeyH)}}

PrepareQueryCalls ==
    {Call("prepare_query", <<template, varmap>>) :
        template \in Templates, varmap \in PrefixKeyMaps}

\* the orders a HashMap with these keys can be iterated in
KeyOrders(keys) ==
    {order \in [1..Cardinality(keys) -> keys] :
        \A i, j \in 1..Cardinality(keys) : order[i] = order[j] => i = j}

\* prepare_tile_query(query, aquarium_id, hours)
CallPrepareTileQuery ==
    /\ call.op = "prepare_tile_query"
    /\ call.ret = None
    /\ \E order \in VarOrders :
          call' = [call EXCEPT !.ret = Some(prepare_tile_query(call.args[1], call.args[2],
                                                                call.args[3], order))]
    /\ UNCHANGED <<widgets_config, aquarium_id, hours, pc, k, available_probes,
                   total_widgets, units, fence, chan, tx_main, rx, wire, issued,
                   frame, accept_encoding, compress_flag, http_response, body>>

\* prepare_query(query, vars)
CallPrepareQuery ==
    /\ call.op = "prepare_query"
    /\ call.ret = None
    /\ \E order \in KeyOrders(DOMAIN call.args[2]) :
          call' = [call EXCEPT !.ret = Some(prepare_query_in(call.args[1], call.args[2],
                                                              order))]
    /\ UNCHANGED <<widgets_config, aquarium_id, hours, pc, k, available_probes,
                   total_widgets, units, fence, chan, tx_main, rx, wire, issued,
                   frame, accept_encoding, compress_flag, http_response, body>>

\* source ids for format_name: the two of its test and every id of up to
\* MaxIdLen letters and underscores
NamedIds ==
    {<<"G", "r", "e", "a", "t", "_", "B", "a", "r", "r", "i", "e", "r", "_">>,
     <<"P", "l", "a", "n", "e", "t", "_", "7", "2">>}
    \cup UNION {[1..n -> {"a", "_"}] : n \in 0..MaxIdLen}

FormatNameCalls == {Call("format_name", <<id>>) : id \in NamedIds}

\* Aquarium::new(id): name = format_name(&id)
CallFormatName ==
    /\ call.op = "format_name"
    /\ call.ret = None
    /\ call' = [call EXCEPT !.ret = Some(format_name(call.args[1]))]
    /\ UNCHANGED <<widgets_config, aquarium_id, hours, pc, k, available_probes,
                   total_widgets, units, fence, chan, tx_main, rx, wire, issued,
                   frame, accept_encoding, compress_flag, http_response, body>>

\* is_probe_available(query, available_probes)
CallIsProbeAvailable ==
    /\ call.op = "is_probe_available"
    /\ call.ret = None
    /\ call' = [call EXCEPT !.ret = Some(is_probe_available(call.args[1], call.args[2]))]
    /\ UNCHANGED <<widgets_config, aquarium_id, hours, pc, k, available_probes,
                   total_widgets, units, fence, chan, tx_main, rx, wire, issued,
                   frame, accept_encoding, compress_flag, http_response, body>>

InitCalls ==
    /\ widgets_config = Catalog({}, {}, {})
    /\ aquarium_id \in AquariumIds
    /\ hours = DefaultHours
    /\ pc = "returned"
    /\ k = 1
    /\ available_probes = {}
    /\ total_widgets = 0
    /\ units = <<>>
    /\ fence = [st |-> "done", msg |-> None]
    /\ chan = <<>>
    /\ tx_main = FALSE
    /\ rx = "ended"
    /\ wire = <<>>
    /\ issued = EmptyBag
    /\ frame = NoFrame
    /\ accept_encoding = None
    /\ compress_flag = None
    /\ http_response = None
    /\ body = <<>>
    /\ call \in FilterCalls \cup DownsampleCalls \cup TileQueryCalls \cup PrepareQueryCalls
                 \cup FormatNameCalls

NextCalls ==
    \/ CallIsProbeAvailable
    \/ CallDownsamplePoints
    \/ CallPrepareTileQuery
    \/ CallPrepareQuery
    \/ CallFormatName

SpecCalls == InitCalls /\ [][NextCalls]_vars

---------------------------------------------------------------------------
(* Properties *)

MsgType(m) == m.type[1]

\* every message put on the channel and not discarded, oldest first
Stream == wire \o chan

\* C1: the Skeleton is the first message on the channel of every request: it
\* is there before any task or the completion task is spawned and before the
\* receiver is returned, and nothing is received ahead of it.
C1_SkeletonFirst ==
    /\ Stream # <<>> => MsgType(Stream[1]) = "SKELETON"
    /\ (units # <<>> \/ fence.st # "unspawned") /\ rx = "held"
          => chan # <<>> /\ MsgType(chan[1]) = "SKELETON"
    /\ rx \in {"open", "ended"} => Stream # <<>>
    /\ wire # <<>> => MsgType(wire[1]) = "SKELETON"

\* a stream on which the Skeleton was followed by an update and by Complete
C1_Witness ==
    /\ Len(wire) >= 3
    /\ MsgType(wire[1]) = "SKELETON"
    /\ \E m \in Range(wire) : MsgType(m) \in {"TILE_UPDATE", "CHART_UPDATE"}
    /\ \E m \in Range(wire) : MsgType(m) = "COMPLETE"

\* the indices of the items whose query passes the availability filter
AvailableIdx(items) ==
    {i \in 1..Len(items) : is_probe_available(items[i].query, available_probes)}

\* the j-th smallest element of a set of numbers
Nth(A, j) == CHOOSE i \in A : Cardinality({x \in A : x <= i}) = j

\* listed is the sequence of the ids of the items at the indices A, in order
ListsExactly(listed, items, A) ==
    /\ Len(listed) = Cardinality(A)
    /\ \A j \in 1..Len(listed) : listed[j].id = Some(items[Nth(A, j)].id)

\* the message lists exactly the available widgets of the catalog
SkeletonMatchesFilter(m) ==
    LET sk == m.skeleton[1]
        charts == widgets_config.charts
        listedCharts == {c \in 1..Len(charts) : AvailableIdx(charts[c].series) # {}}
    IN  /\ ListsExactly(sk.tiles[1], widgets_config.tiles, AvailableIdx(widgets_config.tiles))
        /\ ListsExactly(sk.charts[1], charts, listedCharts)
        /\ \A j \in 1..Len(sk.charts[1]) :
              LET c == charts[Nth(listedCharts, j)]
              IN  ListsExactly(sk.charts[1][j].series[1], c.series, AvailableIdx(c.series))

\* C2: the Skeleton lists exactly the tiles whose query is available, a chart
\* if and only if one of its series is available, and for each listed chart
\* exactly its available series, all in catalog order.
C2_SkeletonIsFilteredCatalog ==
    \A m \in Range(Stream) : MsgType(m) = "SKELETON" => SkeletonMatchesFilter(m)

\* two tiles and a chart of two series, of which the probe set covers one
\* tile and one series: the Skeleton lists one tile and one chart of one series
C2_Witness ==
    /\ Len(widgets_config.tiles) = 2
    /\ Len(widgets_config.charts[1].series) = 2
    /\ Len(widgets_config.charts[2].series) = 1
    /\ chan # <<>>
    /\ MsgType(chan[1]) = "SKELETON"
    /\ Len(chan[1].skeleton[1].tiles[1]) = 1
    /\ Len(chan[1].skeleton[1].charts[1]) = 1
    /\ Len(chan[1].skeleton[1].charts[1][1].series[1]) = 1

\* the widgets with a query that a skeleton lists: its tiles, then the series
\* of its charts
RECURSIVE SkeletonSeries(_)
SkeletonSeries(charts) ==
    IF charts = <<>> THEN <<>>
    ELSE [i \in 1..Len(Head(charts).series[1]) |->
             [kind |-> "series", tile_id |-> "", chart_id |-> Head(charts).id[1],
              series_id |-> Head(charts).series[1][i].id[1]]]
         \o SkeletonSeries(Tail(charts))

SkeletonWidgets(sk) ==
    [i \in 1..Len(sk.tiles[1]) |->
        [kind |-> "tile", tile_id |-> sk.tiles[1][i].id[1], chart_id |-> "",
         series_id |-> ""]]
    \o SkeletonSeries(sk.charts[1])

\* the Skeleton of the request: the one on the stream, or, when the consumer
\* left before receiving it, the one stream_dashboard built
RequestSkeleton ==
    IF Stream # <<>> /\ MsgType(Stream[1]) = "SKELETON"
    THEN Stream[1].skeleton[1]
    ELSE build_skeleton(widgets_config, aquarium_id, available_probes)

UnitWidget(u) ==
    [kind |-> u.kind, tile_id |-> u.tile_id, chart_id |-> u.chart_id,
     series_id |-> u.series_id]

Started == {i \in UnitIds : units[i].st # "spawned"}

IsPrefix(s, t) == Len(s) <= Len(t) /\ s = SubSeq(t, 1, Len(s))

\* C3: the tasks are spawned for exactly the tiles and series the Skeleton
\* lists (one each, in order); each task issues its query once when it starts,
\* with the operation of its kind, and no other query is ever issued.
C3_DispatchEqualsSkeleton ==
    /\ pc # "fetch" =>
          LET listed == SkeletonWidgets(RequestSkeleton)
          IN  /\ IsPrefix([i \in UnitIds |-> UnitWidget(units[i])], listed)
              /\ pc \in {"fence", "return", "returned"} => Len(units) = Len(listed)
    /\ \A i \in UnitIds :
          /\ CopiesIn(RepoCall(units[i]), issued) = (IF i \in Started THEN 1 ELSE 0)
          /\ RepoCall(units[i]).op = (IF units[i].kind = "tile"
                                      THEN "query_single_value"
                                      ELSE "query_time_series_downsampled")
    /\ BagCardinality(issued) = Cardinality(Started)

\* a request over two widgets of which one was filtered out: the other one's
\* query was issued once, failed, and was not issued again
C3_Witness ==
    /\ pc = "returned"
    /\ NumUnits(widgets_config) = 2
    /\ Len(units) = 1
    /\ units[1].st = "done"
    /\ units[1].result = Some(Err)
    /\ BagCardinality(issued) = 1

\* the messages tasks hold for sending
Pending ==
    {units[i].msg[1] : i \in {j \in UnitIds : units[j].st = "sending"}}
    \cup (IF fence.st = "sending" THEN {fence.msg[1]} ELSE {})

\* the update attaches data to an id the skeleton lists
UpdateIsListed(m, sk) ==
    /\ MsgType(m) = "TILE_UPDATE" =>
          \E t \in Range(sk.tiles[1]) : t.id = m.tile_update[1].tile_id
    /\ MsgType(m) = "CHART_UPDATE" =>
          \E c \in Range(sk.charts[1]) :
              /\ c.id = m.chart_update[1].chart_id
              /\ \A su \in Range(m.chart_update[1].series[1]) :
                    \E s \in Range(c.series[1]) : s.id = su.series_id

\* C4: every TileUpdate carries a tile id of the request's Skeleton and every
\* ChartUpdate a chart id and series ids listed under that chart; no second
\* Skeleton ever changes the set of ids.
C4_UpdatesOnlyForListedIds ==
    /\ \A m \in Range(Stream) \cup Pending : UpdateIsListed(m, RequestSkeleton)
    /\ \A i \in 2..Len(Stream) : MsgType(Stream[i]) # "SKELETON"

\* a chart of two series of which the Skeleton lists one, and the update of
\* that series delivered
C4_Witness ==
    /\ Len(widgets_config.charts[1].series) = 2
    /\ Len(wire) >= 2
    /\ MsgType(wire[1]) = "SKELETON"
    /\ Len(wire[1].skeleton[1].charts[1]) = 1
    /\ Len(wire[1].skeleton[1].charts[1][1].series[1]) = 1
    /\ \E m \in Range(wire) : MsgType(m) = "CHART_UPDATE"

\* the query of the task returned data: a present value, a non-empty list
ReturnedData(u) ==
    /\ u.result # None
    /\ u.result[1].ok
    /\ u.result[1].val # <<>>

\* the update a task sends for the data its query returned
UpdateOf(u) ==
    IF u.kind = "tile"
    THEN TileUpdateMsg(u.tile_id, u.result[1].val[1])
    ELSE ChartUpdateMsg(u.chart_id, u.series_id, u.result[1].val)

\* the message is the update of the widget of task u
IsUpdateFor(m, u) ==
    IF u.kind = "tile"
    THEN MsgType(m) = "TILE_UPDATE" /\ m.tile_update[1].tile_id = Some(u.tile_id)
    ELSE /\ MsgType(m) = "CHART_UPDATE"
         /\ m.chart_update[1].chart_id = Some(u.chart_id)
         /\ \E su \in Range(m.chart_update[1].series[1]) : su.series_id = Some(u.series_id)

\* C5: a task sends its update if and only if its query returned data: every
\* update on the stream or held for sending comes from a task whose query
\* returned a value or a non-empty list, a task whose query returned nothing
\* or failed ends with no message, and a task whose query returned data holds
\* its update until it has sent it.
C5_SendIffData ==
    /\ \A m \in Range(Stream) \cup Pending :
          MsgType(m) \in {"TILE_UPDATE", "CHART_UPDATE"} =>
              \E i \in UnitIds : ReturnedData(units[i]) /\ m = UpdateOf(units[i])
    /\ \A i \in UnitIds :
          units[i].result # None =>
              IF ReturnedData(units[i])
              THEN \/ units[i].st = "sending" /\ units[i].msg = Some(UpdateOf(units[i]))
                   \/ units[i].st = "done" /\
                         (rx = "dropped" \/ UpdateOf(units[i]) \in Range(Stream))
              ELSE /\ units[i].st = "done"
                   /\ \A m \in Range(Stream) \cup Pending : ~IsUpdateFor(m, units[i])

\* a tile whose query returned no row ended without an update while the
\* update of a series whose query returned rows was delivered
C5_Witness ==
    /\ \E i \in UnitIds :
          /\ units[i].kind = "tile"
          /\ units[i].result = Some(Ok(None))
          /\ units[i].st = "done"
    /\ \E i \in UnitIds :
          /\ units[i].kind = "series"
          /\ ReturnedData(units[i])
          /\ UpdateOf(units[i]) \in Range(wire)

\* C6: every ChartUpdate carries exactly one series, whose point list is not
\* empty and has at most MAX_POINTS_PER_SERIES (150) points.
C6_ChartUpdateOneBoundedSeries ==
    \A m \in Range(Stream) \cup Pending :
        MsgType(m) = "CHART_UPDATE" =>
            /\ Len(m.chart_update[1].series[1]) = 1
            /\ Len(m.chart_update[1].series[1][1].points[1]) >= 1
            /\ Len(m.chart_update[1].series[1][1].points[1]) <= MAX_POINTS_PER_SERIES

\* the update of a series whose response of 301 rows was downsampled with
\* buckets of 3 rows to 101 points
C6_Witness ==
    \E m \in Range(wire) :
        /\ MsgType(m) = "CHART_UPDATE"
        /\ Len(m.chart_update[1].series[1][1].points[1]) = 101
        /\ m.chart_update[1].series[1][1].points[1][1] = SDPoint(TimeSeriesPoint(2000, F64Of(2, 1)))

\* the message is of one of the four kinds, with the payload of its kind
\* populated and no other
WellFormed(m) ==
    /\ m.type # None
    /\ MsgType(m) \in {"SKELETON", "TILE_UPDATE", "CHART_UPDATE", "COMPLETE"}
    /\ (m.skeleton # None) = (MsgType(m) = "SKELETON")
    /\ (m.tile_update # None) = (MsgType(m) = "TILE_UPDATE")
    /\ (m.chart_update # None) = (MsgType(m) = "CHART_UPDATE")
    /\ (m.complete # None) = (MsgType(m) = "COMPLETE")

Failed(u) == u.result = Some(Err)

\* no failed task has a message, and every message is of the four kinds
NoErrorOnTheStream ==
    /\ \A m \in Range(Stream) \cup Pending : WellFormed(m)
    /\ \A i \in UnitIds :
          Failed(units[i]) =>
              /\ units[i].st = "done"
              /\ units[i].msg = None
              /\ \A m \in Range(Stream) \cup Pending : ~IsUpdateFor(m, units[i])

\* the step in which the query of task i fails touches nothing but that task
FailureIsLocal ==
    \A i \in UnitIds :
        units[i].st = "querying" /\ Failed(units'[i]) =>
            /\ UNCHANGED <<chan, rx, wire, fence, tx_main, pc>>
            /\ \A j \in UnitIds \ {i} : units'[j] = units[j]

\* C7: a failed upstream query never becomes a protocol error: the failing
\* task puts nothing on the channel, only Skeleton, TileUpdate, ChartUpdate
\* and Complete messages are ever emitted, and the failure leaves the channel,
\* the receiver and every other task as they were.
C7_FailureIsSilent == []NoErrorOnTheStream /\ [][FailureIsLocal]_vars

\* after the query of one task failed, the update of another was delivered,
\* then Complete, and the stream ended
C7_Witness ==
    /\ \E i \in UnitIds : Failed(units[i])
    /\ \E i \in UnitIds : ReturnedData(units[i]) /\ UpdateOf(units[i]) \in Range(wire)
    /\ \E m \in Range(wire) : MsgType(m) = "COMPLETE"
    /\ rx = "ended"

CompleteDelivered == \E m \in Range(wire) : MsgType(m) = "COMPLETE"

\* C8: once the consumer holds the stream, Complete is eventually delivered
\* to it unless it disconnects, whatever the widget queries do (return a
\* value, nothing, an error, or never return) and whatever the Skeleton lists.
C8_CompleteEventuallyDelivered ==
    (rx = "open") ~> (CompleteDelivered \/ rx = "dropped")

\* Complete delivered while the query of a task has not returned
C8_Witness ==
    /\ CompleteDelivered
    /\ \E i \in UnitIds : units[i].st = "querying"

CompleteEnqueued == \E m \in Range(Stream) : MsgType(m) = "COMPLETE"

\* C9: while the consumer has not disconnected, the last sender is dropped
\* only after Complete was put on the channel, so a stream that ends by the
\* channel closing has delivered Complete: an end without Complete is never a
\* graceful one.
C9_CloseOnlyAfterComplete ==
    /\ (AllSendersDropped /\ rx # "dropped") => CompleteEnqueued
    /\ (rx = "ended") => CompleteDelivered

\* the stream ended by the channel closing, after a task whose query failed
\* and one whose query returned nothing ended without sending
C9_Witness ==
    /\ rx = "ended"
    /\ CompleteDelivered
    /\ \E i \in UnitIds : Failed(units[i])
    /\ \E i \in UnitIds : ~Failed(units[i]) /\ units[i].msg = None

\* the unsigned integer four bytes spell, most significant first
u32_from_be(b) == ((b[1] * 256 + b[2]) * 256 + b[3]) * 256 + b[4]

\* the payload of the frame of the call: what the encoder returned when
\* compression is negotiated, the serialized message otherwise
FramePayload ==
    IF frame.compress THEN frame.encoded[1] ELSE write_to_out_protocol(frame.msg[1])

\* C10: the result of serialize_chunk is one frame: four bytes that spell,
\* big-endian and uncompressed, the length L of the payload as it goes on the
\* wire (the encoder's output when compression is negotiated), followed by
\* exactly the L bytes of that payload.
C10_FrameIsLengthPrefixedPayload ==
    frame.chunk # None =>
        LET chunk == frame.chunk[1].val
            L == u32_from_be(SubSeq(chunk, 1, 4))
        IN  /\ frame.chunk[1].ok
            /\ Len(chunk) >= 4
            /\ \A i \in 1..Len(chunk) : chunk[i] \in 0..255
            /\ L = Len(FramePayload)
            /\ Len(chunk) = 4 + L
            /\ SubSeq(chunk, 5, Len(chunk)) = FramePayload

\* a compressed frame of a full ChartUpdate: the encoder's output differs in
\* length from the serialized message and its length needs two bytes
C10_Witness ==
    /\ frame.chunk # None
    /\ frame.compress
    /\ MsgType(frame.msg[1]) = "CHART_UPDATE"
    /\ Len(frame.msg[1].chart_update[1].series[1][1].points[1]) = MAX_POINTS_PER_SERIES
    /\ Len(frame.encoded[1]) # Len(write_to_out_protocol(frame.msg[1]))
    /\ frame.chunk[1].val[3] # 0

---------------------------------------------------------------------------
(* The conforming reader of spec 4.4. The client is not part of the        *)
(* repository: the reader below is the one the specification describes,    *)
(* its decoders the inverses of the encoders of the model.                 *)

\* the length a reader takes from four prefix bytes; a prefix of 2^31 or
\* more exceeds every stream of the model
read_u32(b) == IF b[1] >= 128 THEN UsizeMax ELSE u32_from_be(b)

\* read 4 bytes, read exactly L bytes, repeat: the payloads read and the
\* bytes left over when no whole frame remains
RECURSIVE ReadFrames(_)
ReadFrames(bytes) ==
    IF Len(bytes) < 4 THEN [payloads |-> <<>>, rest |-> bytes]
    ELSE LET L == read_u32(bytes)
         IN  IF Len(bytes) - 4 < L THEN [payloads |-> <<>>, rest |-> bytes]
             ELSE LET more == ReadFrames(SubSeq(bytes, 5 + L, Len(bytes)))
                  IN  [payloads |-> <<SubSeq(bytes, 5, 4 + L)>> \o more.payloads,
                       rest |-> more.rest]

\* the Brotli decoder on the streams of the encoder: the bytes whose stream
\* this is, none when the bytes are no such stream
BrotliDecoder(bytes) ==
    LET hits == {e \in BrotliReference : e[2] = bytes}
    IN  IF hits = {} THEN None ELSE Some((CHOOSE e \in hits : TRUE)[1])

\* the messages the decoder of the model tells apart
DecodableMessages ==
    {SkeletonMsg(build_skeleton(cfg, aq, probes)) :
        cfg \in ResponseCatalogs \cup {Catalog(T, {1}, {}) : T \in SUBSET {1, 2}},
        aq \in AquariumIds, probes \in SUBSET AllProbes}
    \cup {TileUpdateMsg(t.id, v) : t \in Range(TileDefs), v \in {F64Of(21, 1), F64Of(0, 1), F64Of(43, 2)}}
    \cup {ChartUpdateMsg("c_env", s.id, RawSeries(n)) :
             s \in Range(SeriesDefs), n \in 0..(MaxRows + 1)}
    \cup {CompleteMsg(n, d) : n \in 0..MaxUnits, d \in {0} \cup Durations}

\* each of them beside its bytes
Encodings == {<<write_to_out_protocol(m), m>> : m \in DecodableMessages}

\* StreamMessage::read_from_in_protocol: the messages whose encoding is
\* these bytes, none when the bytes are no encoding
read_from_in_protocol(bytes) ==
    {e[2] : e \in {e \in Encodings : e[1] = bytes}}

\* decompress if negotiated, decode one message
ReaderDecode(payload, negotiated) ==
    LET raw == IF negotiated THEN BrotliDecoder(payload) ELSE Some(payload)
    IN  IF raw = None THEN {} ELSE read_from_in_protocol(raw[1])

\* C11: a conforming reader applied to the concatenated frames of a response
\* reads whole frames with nothing left over, as many as messages were
\* sent, and decodes the i-th to exactly the i-th message sent, for every
\* message variant, with and without compression.
C11_ReaderRecoversSentMessages ==
    (compress_flag # None) =>
        LET read == ReadFrames(Concat(body))
        IN  /\ read.rest = <<>>
            /\ Len(read.payloads) = Len(wire)
            /\ \A i \in 1..Len(wire) :
                   ReaderDecode(read.payloads[i], compress_flag[1]) = {wire[i]}

\* a compressed response of four frames, one of each variant, read to its
\* end: the Skeleton's stream is shorter than the message, the TileUpdate's
\* longer
C11_Witness ==
    /\ rx = "ended"
    /\ compress_flag = Some(TRUE)
    /\ Len(wire) = 4
    /\ MsgType(wire[1]) = "SKELETON"
    /\ MsgType(wire[2]) = "CHART_UPDATE"
    /\ MsgType(wire[3]) = "TILE_UPDATE"
    /\ MsgType(wire[4]) = "COMPLETE"
    /\ Len(body[1]) - 4 < Len(write_to_out_protocol(wire[1]))
    /\ Len(body[3]) - 4 > Len(write_to_out_protocol(wire[3]))

\* the payload of the i-th frame written to the connection
BodyPayload(i) == SubSeq(body[i], 5, Len(body[i]))

\* the i-th payload is the encoder's stream for the i-th message alone
IsCompressedFrame(i) ==
    BodyPayload(i) = BrotliEncoder(write_to_out_protocol(wire[i]))

\* the i-th payload is the serialized i-th message as it is
IsPlainFrame(i) == BodyPayload(i) = write_to_out_protocol(wire[i])

\* the request names br in a readable Accept-Encoding header
HeaderNamesBrotli ==
    /\ accept_encoding # None
    /\ accept_encoding[1].visible
    /\ \E i \in 1..(Len(accept_encoding[1].text) - 1) :
          accept_encoding[1].text[i] = "b" /\ accept_encoding[1].text[i + 1] = "r"

\* the decision is the header's, and every frame written so far follows it
FramesFollowTheDecision ==
    (compress_flag # None) =>
        /\ compress_flag[1] = HeaderNamesBrotli
        /\ \A i \in 1..Len(body) :
              IF compress_flag[1]
              THEN IsCompressedFrame(i) /\ ~IsPlainFrame(i)
              ELSE IsPlainFrame(i) /\ ~IsCompressedFrame(i)

\* once taken the decision stays, as does the header it was taken from
DecisionIsKept ==
    /\ accept_encoding' = accept_encoding
    /\ (compress_flag # None) => (compress_flag' = compress_flag)

\* C12: the compression decision is taken once per connection from the
\* request's Accept-Encoding header and never changes; every frame of the
\* response follows it, so that no response mixes compressed and plain
\* payloads, and each compressed payload is the encoding of its own message
\* alone.
C12_OneDecisionForEveryFrame == []FramesFollowTheDecision /\ [][DecisionIsKept]_vars

\* a response to a request whose header lists br after gzip: Complete,
\* written ahead of the updates, and a TileUpdate, both compressed
C12_Witness ==
    /\ accept_encoding # None
    /\ Len(accept_encoding[1].text) > 2
    /\ compress_flag = Some(TRUE)
    /\ Len(body) = 4
    /\ MsgType(wire[2]) = "COMPLETE"
    /\ MsgType(wire[4]) = "TILE_UPDATE"
    /\ \A i \in 1..Len(body) : IsCompressedFrame(i)

\* C13: the response carries status 200 and no content-encoding header,
\* whether or not the frame payloads are compressed.
C13_NoContentEncodingHeader ==
    (http_response # None) =>
        /\ http_response[1].status = StatusOk
        /\ \A h \in http_response[1].headers : h[1] # "content-encoding"

\* a response built for a connection that compresses, a compressed frame
\* already written
C13_Witness ==
    /\ http_response # None
    /\ compress_flag = Some(TRUE)
    /\ Len(body) >= 1
    /\ IsCompressedFrame(1)
    /\ <<"transfer-encoding", "chunked">> \in http_response[1].headers

\* C14: when is_probe_available extracts a probe type from the query, then,
\* if it also extracts a name, it answers true exactly when the probe set
\* holds the descriptor of that type and that name, and if it extracts no
\* name, exactly when the probe set holds some descriptor of that type.
C14_AvailabilityFollowsDescriptors ==
    (call.op = "is_probe_available" /\ call.ret # None) =>
        LET query == call.args[1]
            probes == call.args[2]
            probe_type == extract_tag_value(query, TagProbeType)
            name == extract_tag_value(query, TagName)
        IN  (probe_type # None) =>
               IF name # None
               THEN call.ret[1] <=> (\E p \in probes : /\ p.probe_type = probe_type[1]
                                                       /\ p.name = name[1])
               ELSE call.ret[1] <=> (\E p \in probes : p.probe_type = probe_type[1])

\* a query of type P and a name no probe has, against probes that hold type P
\* under other names: not available
C14_Witness ==
    /\ call.op = "is_probe_available"
    /\ call.ret = Some(FALSE)
    /\ extract_tag_value(call.args[1], TagProbeType) = Some(<<"P">>)
    /\ extract_tag_value(call.args[1], TagName) = Some(<<"q">>)
    /\ ProbeMetadata(<<"P">>, <<"b">>) \in call.args[2]

\* the queries of the widget definitions from which no probe type is
\* extracted
FailOpenQueries ==
    {q \in {t.query : t \in Range(TileDefs)} \cup {sr.query : sr \in Range(SeriesDefs)} :
        extract_tag_value(q, TagProbeType) = None}

\* the items of the catalog with such a query
FailOpenItems ==
    {item \in Range(WorkList(widgets_config)) : item.query \in FailOpenQueries}

\* the skeleton lists the item
ListsItem(sk, item) ==
    IF item.kind = "tile"
    THEN \E t \in Range(sk.tiles[1]) : t.id = Some(item.tile_id)
    ELSE \E c \in Range(sk.charts[1]) :
            /\ c.id = Some(item.chart_id)
            /\ \E sr \in Range(c.series[1]) : sr.id = Some(item.series_id)

\* C15: a widget from whose query no probe type is extracted passes the
\* filter for every probe set (the empty one and queries with a name
\* included); the Skeleton of the request lists it, a task is spawned for it
\* once the spawn loops are over, and the task issues its query when it
\* starts.
C15_FailOpen ==
    \A item \in FailOpenItems :
        /\ pc = "fetch" => \A P \in SUBSET AllProbes : is_probe_available(item.query, P)
        /\ \A m \in Range(Stream) :
              MsgType(m) = "SKELETON" => ListsItem(m.skeleton[1], item)
        /\ pc \in {"fence", "return", "returned"} =>
              \E i \in UnitIds :
                  /\ UnitWidget(units[i]) = [kind |-> item.kind, tile_id |-> item.tile_id,
                                             chart_id |-> item.chart_id,
                                             series_id |-> item.series_id]
                  /\ i \in Started => CopiesIn(RepoCall(units[i]), issued) = 1

\* no probe is known and the query of the only widget has a name but no
\* type: the Skeleton received lists it and its query was issued
C15_Witness ==
    /\ available_probes = {}
    /\ Len(widgets_config.tiles) = 1
    /\ extract_tag_value(widgets_config.tiles[1].query, TagProbeType) = None
    /\ extract_tag_value(widgets_config.tiles[1].query, TagName) # None
    /\ wire # <<>>
    /\ Len(wire[1].skeleton[1].tiles[1]) = 1
    /\ Len(units) = 1
    /\ units[1].st = "done"
    /\ BagCardinality(issued) = 1

\* a call of downsample_points that has returned
Downsampled == call.op = "downsample_points" /\ call.ret # None

\* c is n / d rounded up
IsCeilOf(c, n, d) == c * d >= n /\ (c - 1) * d < n

\* C16: with a bound M no smaller than the number N of points,
\* downsample_points returns its input as it is, the empty input included.
C16_UnchangedWithinBound ==
    Downsampled =>
        LET points == call.args[1]
            max_points == call.args[2]
        IN  (max_points >= Len(points)) => (call.ret[1] = points)

\* an input of as many points as the bound allows, returned as it is
C16_Witness ==
    /\ Downsampled
    /\ Len(call.args[1]) = MaxPoints
    /\ call.args[2] = MaxPoints
    /\ call.ret[1] = call.args[1]
    /\ call.args[1][1].value # call.args[1][2].value

\* C17 as stated: for every M < N the output has at most M points, and as
\* many as N / bucket_size rounded up, bucket_size being N / M rounded up.
C17_Original_AtMostMForEveryM ==
    Downsampled =>
        LET N == Len(call.args[1])
            M == call.args[2]
            out == call.ret[1]
        IN  (M < N) =>
               /\ Len(out) <= M
               /\ \E bucket_size \in 1..N :
                     IsCeilOf(bucket_size, N, M) /\ IsCeilOf(Len(out), N, bucket_size)

\* C17: for 1 <= M < N the output has at most M points, and as many as
\* N / bucket_size rounded up, bucket_size being N / M rounded up.
C17_AtMostMForPositiveM ==
    Downsampled =>
        LET N == Len(call.args[1])
            M == call.args[2]
            out == call.ret[1]
        IN  (1 <= M /\ M < N) =>
               /\ Len(out) <= M
               /\ \E bucket_size \in 1..N :
                     IsCeilOf(bucket_size, N, M) /\ IsCeilOf(Len(out), N, bucket_size)

\* MaxPoints points under a bound one less: buckets of two, fewer output
\* points than the bound allows
C17_Witness ==
    /\ Downsampled
    /\ Len(call.args[1]) = MaxPoints
    /\ call.args[2] = MaxPoints - 1
    /\ Len(call.ret[1]) < call.args[2]
    /\ Len(call.ret[1]) > 1

\* the first and the last index (1-based) of the j-th bucket of N points in
\* buckets of bucket_size
BucketFirst(j, bucket_size) == (j - 1) * bucket_size + 1
BucketLast(j, bucket_size, N) ==
    IF N - (j - 1) * bucket_size <= bucket_size THEN N ELSE j * bucket_size

\* the j-th output point is the middle timestamp and the mean of its bucket:
\* the sum of its values in f64, divided by their number
IsPointOfBucket(p, points, first, last) ==
    LET len == last - first + 1
        sum == SumValues(SubSeq(points, first, last))
    IN  /\ len >= 1
        /\ p.time_ms = points[first + (len \div 2)].time_ms
        /\ p.value = F64DivCount(sum, len)

\* C18: when downsample_points reduces its input there is a bucket size for
\* which the input splits into consecutive buckets of that size, the last one
\* possibly shorter, that cover every point once, one output point per bucket
\* in order: its timestamp that of the bucket's element at index
\* floor(length / 2), its value the mean of the bucket's values as f64
\* arithmetic gives it.
C18_BucketsPartitionAndAverage ==
    Downsampled =>
        LET points == call.args[1]
            N == Len(points)
            out == call.ret[1]
        IN  (N > call.args[2]) =>
               \E bucket_size \in 1..N :
                   /\ IsCeilOf(Len(out), N, bucket_size)
                   /\ \A j \in 1..Len(out) :
                         IsPointOfBucket(out[j], points, BucketFirst(j, bucket_size),
                                         BucketLast(j, bucket_size, N))

\* an odd number of points in buckets of two: the last bucket is a single
\* point, the first holds 0.1 and 0.2 and has the mean f64 arithmetic gives
\* them, 0.15000000000000002, one step above the f64 nearest to 0.15
C18_Witness ==
    /\ Downsampled
    /\ Len(call.args[1]) = 3
    /\ call.args[2] = 2
    /\ Len(call.ret[1]) = 2
    /\ call.args[1][1].value = F64Of(1, 10)
    /\ call.args[1][2].value = F64Of(1, 5)
    /\ call.ret[1][1].time_ms = 2000
    /\ call.ret[1][1].value = F64Bits(FALSE, 1020, <<3, 51, 51, 51, 51, 51, 52>>)
    /\ call.ret[1][1].value # F64Of(3, 20)
    /\ call.ret[1][2] = call.args[1][3]

\* the template with every placeholder of a key of the map replaced by the
\* key's value, in one pass from left to right: what a value brings in is
\* not read again, every other character is kept
RECURSIVE SinglePass(_, _)
SinglePass(text, varmap) ==
    IF text = <<>> THEN <<>>
    ELSE LET hits == {key \in DOMAIN varmap : MatchesAt(text, 1, Placeholder(key))}
         IN  IF hits # {}
             THEN LET key == CHOOSE key \in hits : TRUE
                  IN  varmap[key]
                      \o SinglePass(SubSeq(text, Len(Placeholder(key)) + 1, Len(text)),
                                    varmap)
             ELSE <<Head(text)>> \o SinglePass(Tail(text), varmap)

\* C19: the resolved query is the template with every ${source} replaced by
\* the source id and every ${hours} by the hours value, placeholders of
\* other keys and all other text as they were.
C19_ResolvesTemplatePlaceholders ==
    (call.op = "prepare_tile_query" /\ call.ret # None) =>
        call.ret[1] = SinglePass(call.args[1],
                                 (KeySource :> call.args[2])
                                 @@ (KeyHours :> IntToString(call.args[3])))

\* C20: with the keys h and hours both in the variable map, in whichever
\* order they are applied, every ${hours} of the template stands replaced by
\* the value of hours in the result, untouched by the substitution of ${h},
\* which replaces the ${h} of the template only.
C20_NoPartialTokenCollision ==
    (call.op = "prepare_query" /\ call.ret # None) =>
        call.ret[1] = SinglePass(call.args[1], call.args[2])

\* a call of format_name that has returned
Named == call.op = "format_name" /\ call.ret # None

\* the number of underscores the id ends in
TrailingUnderscores(id) ==
    CHOOSE n \in 0..Len(id) :
        /\ \A i \in (Len(id) - n + 1)..Len(id) : id[i] = "_"
        /\ n < Len(id) => id[Len(id) - n] # "_"

\* name is the first len characters of id, spaces for its underscores
IsSpacedPrefix(name, id, len) ==
    /\ Len(name) = len
    /\ \A i \in 1..len : name[i] = (IF id[i] = "_" THEN " " ELSE id[i])

\* C21 as stated: the name is the id without one trailing underscore (when
\* it ends in one), every other underscore a space, for every id.
C21_Original_OneUnderscoreTrimmed ==
    Named =>
        LET id == call.args[1]
        IN  IsSpacedPrefix(call.ret[1], id,
                           IF TrailingUnderscores(id) >= 1 THEN Len(id) - 1 ELSE Len(id))

\* C21: the name is the id without any of its trailing underscores, every
\* other underscore a space, for every id; Great_Barrier_ gives
\* "Great Barrier" and Planet_72 gives "Planet 72".
C21_AllTrailingUnderscoresTrimmed ==
    Named =>
        LET id == call.args[1]
        IN  /\ IsSpacedPrefix(call.ret[1], id, Len(id) - TrailingUnderscores(id))
            /\ id = <<"G", "r", "e", "a", "t", "_", "B", "a", "r", "r", "i", "e", "r", "_">>
                  => call.ret[1] = <<"G", "r", "e", "a", "t", " ", "B", "a", "r", "r", "i", "e", "r">>
            /\ id = <<"P", "l", "a", "n", "e", "t", "_", "7", "2">>
                  => call.ret[1] = <<"P", "l", "a", "n", "e", "t", " ", "7", "2">>

\* an id with an underscore inside and two at its end: the name has one
\* space and ends in a letter
C21_Witness ==
    /\ Named
    /\ call.args[1] = <<"a", "_", "a", "_", "_">>
          \/ call.args[1] = <<"_", "a", "_", "_">>
    /\ call.ret[1][Len(call.ret[1])] = "a"
    /\ Len(call.ret[1]) = Len(call.args[1]) - 2

\* the completion task has put Complete on the channel
CompleteEmitted == fence.st = "done"

\* Complete is emitted and the query of the i-th task has not returned yet
FinishesLate(i) ==
    /\ i \in UnitIds
    /\ units[i].st \in {"spawned", "querying"}
    /\ CompleteEmitted

\* the consumer has received the update of the i-th task
UpdateDelivered(i) ==
    /\ i \in UnitIds
    /\ ReturnedData(units[i])
    /\ UpdateOf(units[i]) \in Range(wire)

\* C22 as stated: once Complete is emitted, the update of a task whose
\* query returns later is never delivered to the consumer.
C22_Original_LateUpdatesDropped ==
    \A i \in 1..MaxUnits : [](FinishesLate(i) => [](~UpdateDelivered(i)))

\* a step taken after Complete was emitted keeps the update of a task whose
\* query returns data in it, and a task that ends its send in it has put
\* its update at the back of the channel, behind Complete, unless the
\* consumer is gone
LateUpdateIsSent ==
    CompleteEmitted =>
        \A i \in UnitIds :
            /\ (units[i].st = "querying" /\ units'[i].st # "querying"
                    /\ ReturnedData(units'[i]))
                  => /\ units'[i].st = "sending"
                     /\ units'[i].msg = Some(UpdateOf(units'[i]))
            /\ (units[i].st = "sending" /\ units'[i].st = "done")
                  => \/ rx = "dropped"
                     \/ /\ CompleteEnqueued
                        /\ chan' = Append(chan, units[i].msg[1])

\* the stream does not end while a task has not ended
OpenWhileTasksRun ==
    (rx = "ended") => \A i \in UnitIds : units[i].st = "done"

\* C22: tasks that finish after the completion task are not dropped: once
\* Complete is emitted, the update of a task whose query returns data later
\* is still sent, behind Complete, and the stream stays open until the task
\* has ended, so a consumer that keeps receiving gets the update after
\* Complete.
C22_LateUpdatesStillSent == [][LateUpdateIsSent]_vars /\ []OpenWhileTasksRun

\* the consumer received Complete while a query was in flight, and later
\* the update of that query as the last message of the stream
C22_Witness ==
    /\ rx = "ended"
    /\ Len(wire) = 3
    /\ MsgType(wire[2]) = "COMPLETE"
    /\ MsgType(wire[3]) \in {"TILE_UPDATE", "CHART_UPDATE"}

\* a send waits for room on the channel and for nothing else: a task that
\* holds its update, and the completion task that holds Complete, can send
\* whatever the other tasks are doing, and the completion task wakes
\* whatever the query tasks are doing
NoSendWaitsForATask ==
    /\ \A i \in UnitIds :
          (units[i].st = "sending" /\ CanSend) => ENABLED UnitSend(i)
    /\ (fence.st = "sending" /\ CanSend) => ENABLED FenceSend
    /\ (fence.st = "sleeping") => ENABLED FenceElapse

\* C23: Complete is not guaranteed to be the last message and the updates
\* of different tasks are in no enforced order: no send ever waits for
\* another task, so an update can reach the consumer after Complete and the
\* update of a later task before the update of an earlier one.
C23_NoOrderEnforced == []NoSendWaitsForATask

\* the consumer received the update of the second task, then Complete, then
\* the update of the first task
C23_Witness ==
    /\ Len(units) = 2
    /\ Len(wire) = 4
    /\ ReturnedData(units[1]) /\ ReturnedData(units[2])
    /\ wire[2] = UpdateOf(units[2])
    /\ MsgType(wire[3]) = "COMPLETE"
    /\ wire[4] = UpdateOf(units[1])

\* the widgets a skeleton lists: its tiles plus its charts
ListedWidgets(sk) == Len(sk.tiles[1]) + Len(sk.charts[1])

\* the Complete messages of the request: sent, or held by the completion task
CompleteMessages ==
    {m \in Range(Stream) : MsgType(m) = "COMPLETE"}
    \cup (IF fence.st = "sending" THEN {fence.msg[1]} ELSE {})

\* every Complete carries the number of widgets the Skeleton lists
CompleteCarriesListedCount ==
    \A m \in CompleteMessages :
        m.complete[1].total_widgets = Some(ListedWidgets(RequestSkeleton))

\* the count is written once, in the step that builds the Skeleton, when no
\* query has been issued and no task exists
CountFixedBeforeQueries ==
    total_widgets' # total_widgets
        => /\ pc = "skeleton"
           /\ issued = EmptyBag /\ units = <<>> /\ fence.st = "unspawned"

\* C24: the total widget count of Complete is the number of tiles plus the
\* number of charts of the request's Skeleton; it is computed with the
\* Skeleton, before any query is issued, and never changes afterwards,
\* whatever the queries return and whatever is delivered.
C24_TotalIsSkeletonCount ==
    []CompleteCarriesListedCount /\ [][CountFixedBeforeQueries]_vars

\* a stream that ended with a Complete counting two widgets, one tile and
\* one chart, and with no update delivered
C24_Witness ==
    /\ rx = "ended"
    /\ Len(wire) = 2
    /\ MsgType(wire[2]) = "COMPLETE"
    /\ wire[2].complete[1].total_widgets = Some(2)
    /\ Len(wire[1].skeleton[1].tiles[1]) = 1
    /\ Len(wire[1].skeleton[1].charts[1]) = 1

\* the spawn loops have ended
SpawnLoopsDone == pc \in {"fence", "return", "returned"}

\* C25 as stated: the number of query tasks launched is the total widget
\* count computed for the Skeleton and carried in Complete.
C25_Original_FanOutIsWidgetCount ==
    SpawnLoopsDone =>
        /\ Len(units) = total_widgets
        /\ \A m \in CompleteMessages :
              m.complete[1].total_widgets = Some(Len(units))

\* every chart the skeleton lists has one series
OneSeriesPerChart(sk) ==
    \A c \in Range(sk.charts[1]) : Len(c.series[1]) = 1

\* the number of tasks launched is the number of tiles and series listed;
\* it is never less than the total widget count, and equal to it exactly
\* when every listed chart has one series
FanOutIsTilesPlusSeries ==
    SpawnLoopsDone =>
        LET sk == RequestSkeleton
        IN  /\ Len(units) = Len(SkeletonWidgets(sk))
            /\ Len(units) >= total_widgets
            /\ (Len(units) = total_widgets) <=> OneSeriesPerChart(sk)

\* one completion task is spawned, after the spawn loops, and none again
OneFenceUnit ==
    /\ (fence.st = "unspawned" /\ fence'.st # "unspawned")
          => pc = "fence" /\ pc' = "return" /\ fence'.st = "sleeping"
    /\ fence.st # "unspawned" => fence'.st # "unspawned"

\* C25: the fan-out of a request is one query task per tile and per chart
\* series listed in the Skeleton, plus one completion task; the number of
\* query tasks is at least the total widget count carried in Complete and
\* equals it exactly when every listed chart has one series.
C25_FanOutIsTilesPlusSeries ==
    /\ []FanOutIsTilesPlusSeries
    /\ []((pc \in {"return", "returned"}) <=> (fence.st # "unspawned"))
    /\ [][OneFenceUnit]_vars

\* a chart of two listed series: two query tasks and a completion task were
\* launched and the Complete delivered counts one widget
C25_Witness ==
    /\ Len(units) = 2
    /\ units[1].kind = "series" /\ units[2].kind = "series"
    /\ units[1].chart_id = units[2].chart_id
    /\ fence.st = "done"
    /\ \E m \in Range(wire) :
          MsgType(m) = "COMPLETE" /\ m.complete[1].total_widgets = Some(1)

\* the channel holds no more than its capacity
ChannelBounded == Len(chan) <= ChannelCapacity

\* the channel is full and the consumer holds the receiver
ChannelFull == Len(chan) = ChannelCapacity /\ rx = "open"

\* a task or the completion task that holds a message cannot send while the
\* channel is full, and can as soon as it has room
SendWaitsForRoom ==
    /\ \A i \in UnitIds :
          units[i].st = "sending" => (ENABLED UnitSend(i) <=> ~ChannelFull)
    /\ fence.st = "sending" => (ENABLED FenceSend <=> ~ChannelFull)

\* a step from a full channel enqueues nothing and keeps every waiting task
\* with its message: only the consumer's receive or its leaving changes the
\* channel; a step in which a task ends its send has found room and put its
\* message at the back of the channel, nothing else changed in it
NothingLostWhenFull ==
    /\ ChannelFull =>
          /\ chan' = chan \/ chan' = Tail(chan) \/ rx' = "dropped"
          /\ \A i \in UnitIds :
                units[i].st = "sending" => units'[i] = units[i]
          /\ fence.st = "sending" => fence' = fence
    /\ \A i \in UnitIds :
          (units[i].st = "sending" /\ units'[i].st = "done" /\ rx = "open")
              => /\ Len(chan) < ChannelCapacity
                 /\ chan' = Append(chan, units[i].msg[1])
    /\ (fence.st = "sending" /\ fence'.st = "done" /\ rx = "open")
          => /\ Len(chan) < ChannelCapacity
             /\ chan' = Append(chan, fence.msg[1])

\* C26: the channel never holds more than ChannelCapacity messages; a task
\* that wants to send while it is full waits with its message and enqueues
\* nothing until the consumer has received, then its send puts the message
\* at the back of the channel: no message is dropped or overwritten because
\* the channel was full.
C26_Backpressure ==
    /\ []ChannelBounded
    /\ []SendWaitsForRoom
    /\ [][NothingLostWhenFull]_vars

\* the channel was full when the last tile task wanted to send; the consumer
\* received one message, the task's update went in at the back and filled
\* the channel again, and the completion task now waits with Complete
C26_Witness ==
    /\ Len(wire) = 1
    /\ Len(chan) = ChannelCapacity
    /\ units[Len(units)].st = "done"
    /\ ReturnedData(units[Len(units)])
    /\ chan[ChannelCapacity] = UpdateOf(units[Len(units)])
    /\ fence.st = "sending"

\* C27: a query that never returns blocks no sibling: once the consumer
\* holds the stream and keeps receiving, the update of every task whose
\* query returned data is delivered, and Complete is delivered, also while
\* the query of another task is still in flight, unless the consumer
\* disconnects.
C27_SlowQueryBlocksNoSibling ==
    (rx = "open")
        ~> \/ rx = "dropped"
           \/ /\ CompleteDelivered
              /\ \A i \in UnitIds : ReturnedData(units[i]) => UpdateDelivered(i)

\* the query of the first task is in flight; the update of the second task
\* and Complete have been delivered and the channel is empty
C27_Witness ==
    /\ Len(units) = 2
    /\ units[1].st = "querying"
    /\ UpdateDelivered(2)
    /\ CompleteDelivered
    /\ chan = <<>>
    /\ rx = "open"

\* the consumer has disconnected
Disconnected == rx = "dropped"

\* after the disconnect nothing is on the channel; a task that holds a
\* message is not blocked: its send can complete; and no task is cancelled:
\* one that was spawned can still issue its query, one whose query is in
\* flight can still get its answer
AfterDisconnect ==
    Disconnected =>
        /\ chan = <<>>
        /\ \A i \in UnitIds :
              /\ units[i].st = "sending" => ENABLED UnitSend(i)
              /\ units[i].st = "spawned" => ENABLED UnitStart(i)
              /\ units[i].st = "querying" => ENABLED UnitQueryReturns(i)
        /\ fence.st = "sending" => ENABLED FenceSend
        /\ fence.st = "sleeping" => ENABLED FenceElapse

\* a step after the disconnect: the channel stays closed and empty and
\* nothing more reaches the consumer; a task that sends ends, its message
\* gone, and the others are untouched by it; no task is removed, and a task
\* changes only by its own next step; a task that has ended stays ended
StepAfterDisconnect ==
    Disconnected =>
        /\ rx' = "dropped" /\ chan' = <<>> /\ wire' = wire
        /\ Len(units') = Len(units)
        /\ \A i \in UnitIds :
              \/ units'[i] = units[i]
              \/ /\ units[i].st = "spawned"
                 /\ units'[i] = [units[i] EXCEPT !.st = "querying"]
              \/ /\ units[i].st = "querying"
                 /\ units'[i].result # None
                 /\ units'[i].st \in {"sending", "done"}
              \/ /\ units[i].st = "sending"
                 /\ units'[i] = [units[i] EXCEPT !.st = "done"]
                 /\ fence' = fence
                 /\ \A j \in UnitIds \ {i} : units'[j] = units[j]
        /\ \/ fence' = fence
           \/ fence.st = "sleeping" /\ fence'.st = "sending"
           \/ fence.st = "sending" /\ fence' = [fence EXCEPT !.st = "done"]
                 /\ units' = units

\* C28: after the consumer disconnects every send fails at once and its
\* message is discarded: nothing is enqueued or delivered, the sender ends
\* without a retry and without any effect on another task; no task waits on
\* the closed channel, and no task is cancelled: queries not yet issued are
\* still issued and queries in flight still return.
C28_DisconnectIsSilent == []AfterDisconnect /\ [][StepAfterDisconnect]_vars

\* the consumer left without having received anything while the channel
\* was full; the last task, which was waiting to send, has ended with its
\* update discarded, and so has the completion task
C28_Witness ==
    /\ Disconnected
    /\ wire = <<>>
    /\ units[Len(units)].st = "done"
    /\ units[Len(units)].msg # None
    /\ fence.st = "done"
    /\ chan = <<>>

\* the state of the request: 0 Init (the probe fetch is pending), 1
\* SkeletonSent (the Skeleton is being built and sent), 2 Streaming, 3
\* Completed (the completion task has sent Complete) or Aborted (the
\* consumer has disconnected)
RequestPhase ==
    IF pc = "fetch" THEN 0
    ELSE IF pc = "skeleton" THEN 1
    ELSE IF fence.st = "done" \/ rx = "dropped" THEN 3
    ELSE 2

\* what each state of the request has and has not done
PhaseOrder ==
    /\ RequestPhase = 0 => available_probes = {}
    /\ RequestPhase <= 1 =>
          /\ Stream = <<>> /\ total_widgets = 0
          /\ units = <<>> /\ issued = EmptyBag /\ fence.st = "unspawned"
          /\ rx = "held"
    /\ RequestPhase >= 2 =>
          \/ rx = "dropped"
          \/ Stream # <<>> /\ MsgType(Stream[1]) = "SKELETON"
    /\ issued # EmptyBag => RequestPhase >= 2

\* a step never goes back to an earlier state; the probes are fetched in
\* the one step that leaves Init, which is never entered again; the
\* Skeleton is built and sent in the one step that leaves SkeletonSent
PhaseStep ==
    /\ RequestPhase' >= RequestPhase
    /\ pc' = "fetch" => pc = "fetch"
    /\ available_probes' # available_probes => RequestPhase = 0 /\ RequestPhase' = 1
    /\ RequestPhase = 0 /\ RequestPhase' # 0 => RequestPhase' = 1
    /\ RequestPhase = 1 /\ RequestPhase' # 1
          => /\ RequestPhase' = 2
             /\ chan' = <<SkeletonMsg(build_skeleton(widgets_config, aquarium_id,
                                                     available_probes))>>

\* C29: a request goes through Init, SkeletonSent, Streaming and then
\* Completed or Aborted and never back: the probes are fetched once, in
\* Init, before the Skeleton is built; the Skeleton is on the channel before
\* a task is spawned or a widget query issued.
C29_PhasesInOrder == []PhaseOrder /\ [][PhaseStep]_vars

\* a completed request: two widget queries were issued after the Skeleton
\* was sent, and the stream ended with Complete as its fourth message
C29_Witness ==
    /\ RequestPhase = 3
    /\ rx = "ended"
    /\ BagCardinality(issued) = 2
    /\ Len(wire) = 4
    /\ MsgType(wire[1]) = "SKELETON"
    /\ MsgType(wire[4]) = "COMPLETE"

\* the frame is one of message m under the connection's decision
IsFrameOf(chunk, m) ==
    LET payload == SubSeq(chunk, 5, Len(chunk))
    IN  /\ Len(chunk) >= 4
        /\ u32_from_be(SubSeq(chunk, 1, 4)) = Len(payload)
        /\ IF compress_flag[1]
           THEN payload = BrotliEncoder(write_to_out_protocol(m))
           ELSE payload = write_to_out_protocol(m)

\* the frames written so far are those of the first messages enqueued, one
\* frame each, in the order of the channel
FramesInEnqueueOrder ==
    /\ Len(body) = Len(wire)
    /\ \A i \in 1..Len(body) : IsFrameOf(body[i], Stream[i])

\* a step that writes to the response writes one frame, that of the oldest
\* message on the channel, behind the frames already written; the messages
\* enqueued keep their order, a send adding behind them
FifoStep ==
    /\ IsPrefix(wire \o chan, wire' \o chan')
    /\ (body' # body) =>
          /\ chan # <<>>
          /\ chan' = Tail(chan)
          /\ wire' = Append(wire, Head(chan))
          /\ Len(body') = Len(body) + 1
          /\ SubSeq(body', 1, Len(body)) = body
          /\ IsFrameOf(body'[Len(body')], Head(chan))
    /\ (body' = body) => (wire' = wire)

\* C30: nothing is reordered between the channel and the wire: the frames
\* of the response are, one per message, the frames of the messages in the
\* order in which they were enqueued.
C30_WireKeepsChannelOrder == []FramesInEnqueueOrder /\ [][FifoStep]_vars

\* a finished plain response whose channel held Complete ahead of a
\* TileUpdate: the second frame is Complete's, the third the TileUpdate's
C30_Witness ==
    /\ rx = "ended"
    /\ compress_flag = Some(FALSE)
    /\ Len(body) = 3
    /\ MsgType(wire[2]) = "COMPLETE"
    /\ MsgType(wire[3]) = "TILE_UPDATE"
    /\ SubSeq(body[2], 5, Len(body[2])) = write_to_out_protocol(wire[2])
    /\ SubSeq(body[3], 5, Len(body[3])) = write_to_out_protocol(wire[3])

\* the number of messages on the stream that satisfy Test
CountOnStream(Test(_)) == Cardinality({i \in 1..Len(Stream) : Test(Stream[i])})

\* the stream holds one Skeleton from the moment it is sent, unless the
\* consumer left before receiving it, and never a second one; it holds at
\* most one Complete and at most one update per tile and per series the
\* Skeleton lists
NoDuplicates ==
    /\ CountOnStream(LAMBDA m : MsgType(m) = "SKELETON") <= 1
    /\ (pc \notin {"fetch", "skeleton"} /\ (rx # "dropped" \/ wire # <<>>))
          => CountOnStream(LAMBDA m : MsgType(m) = "SKELETON") = 1
    /\ CountOnStream(LAMBDA m : MsgType(m) = "COMPLETE") <= 1
    /\ pc # "fetch" =>
          LET listed == SkeletonWidgets(RequestSkeleton)
          IN  \A j \in 1..Len(listed) :
                 CountOnStream(LAMBDA m : IsUpdateFor(m, listed[j])) <= 1

\* a task and the completion task send once: having ended, they stay ended
SendsOnce ==
    /\ \A i \in UnitIds : units[i].st = "done" => units'[i] = units[i]
    /\ fence.st = "done" => fence' = fence

\* C31: whatever the interleaving, the stream of a request over a catalog
\* of distinct widget ids holds exactly one Skeleton, at most one Complete,
\* at most one TileUpdate per listed tile and at most one ChartUpdate per
\* listed (chart, series) pair.
C31_NoDuplicateMessages == []NoDuplicates /\ [][SendsOnce]_vars

\* a finished stream over a tile and a series: the Skeleton, the
\* TileUpdate, the ChartUpdate and Complete, one each
C31_Witness ==
    /\ rx = "ended"
    /\ Len(wire) = 4
    /\ MsgType(wire[1]) = "SKELETON"
    /\ MsgType(wire[2]) = "TILE_UPDATE"
    /\ MsgType(wire[3]) = "CHART_UPDATE"
    /\ MsgType(wire[4]) = "COMPLETE"

\* the widget of a work-list item
ItemWidget(item) ==
    [kind |-> item.kind, tile_id |-> item.tile_id, chart_id |-> item.chart_id,
     series_id |-> item.series_id]

\* after the failed fetch the request goes on with an empty probe set; the
\* first message is the Skeleton, which lists the widgets whose query has no
\* extractable probe type and no others; tasks exist, and queries are
\* issued, for such widgets only, one each once the spawn loops are over
AfterFetchFailure ==
    /\ pc \in {"fetch", "skeleton", "spawn", "fence", "return", "returned"}
    /\ available_probes = {}
    /\ pc \notin {"fetch", "skeleton"} /\ rx = "held"
          => chan # <<>> /\ MsgType(chan[1]) = "SKELETON"
    /\ Stream # <<>> =>
          /\ MsgType(Stream[1]) = "SKELETON"
          /\ \A item \in Range(WorkList(widgets_config)) :
                ListsItem(Stream[1].skeleton[1], item) <=> item \in FailOpenItems
    /\ \A i \in UnitIds :
          \E item \in FailOpenItems : UnitWidget(units[i]) = ItemWidget(item)
    /\ SpawnLoopsDone => Len(units) = Cardinality(FailOpenItems)
    /\ \A c \in BagToSet(issued) : \E i \in UnitIds : c = RepoCall(units[i])

\* the step that ends the fetch goes on to the Skeleton
FailedFetchGoesOn ==
    (pc = "fetch" /\ pc' # "fetch") => (pc' = "skeleton" /\ available_probes' = {})

\* C32: a failed probe fetch does not fail the request. The probe set is
\* empty, the Skeleton is still the first message and lists exactly the
\* widgets from whose query no probe type is extracted, tasks are spawned
\* and queries issued for these widgets only, and the completion task,
\* once spawned, still sends Complete, which reaches the channel unless the
\* consumer has disconnected.
C32_FetchFailureIsNotFatal ==
    /\ []AfterFetchFailure
    /\ [][FailedFetchGoesOn]_vars
    /\ (fence.st # "unspawned")
          ~> (fence.st = "done" /\ (CompleteEnqueued \/ rx = "dropped"))

\* the fetch failed for a catalog of a tile with a probe type and a tile
\* without: the stream is the Skeleton listing the second tile alone, its
\* TileUpdate and a Complete counting one widget
C32_Witness ==
    /\ Len(widgets_config.tiles) = 2
    /\ available_probes = {}
    /\ rx = "ended"
    /\ Len(wire) = 3
    /\ Len(wire[1].skeleton[1].tiles[1]) = 1
    /\ wire[1].skeleton[1].tiles[1][1].id = Some("salt")
    /\ MsgType(wire[2]) = "TILE_UPDATE"
    /\ wire[3].complete[1].total_widgets = Some(1)

\* the most messages a request can send: the Skeleton, Complete and one
\* update per tile and per series the Skeleton lists
MaxMessages(sk) == 2 + Len(SkeletonWidgets(sk))

\* the stream has ended with every task and the completion task ended,
\* every sender dropped, and no more messages than MaxMessages received
EndedCleanly ==
    /\ rx = "ended"
    /\ AllSendersDropped
    /\ chan = <<>>
    /\ Len(wire) <= MaxMessages(wire[1].skeleton[1])

\* the query of every task has returned
QueriesReturned == \A i \in UnitIds : units[i].result # None

\* C33: once every widget query has returned, with a consumer that keeps
\* receiving, every task ends, every sender is dropped and the consumer
\* observes the end of the stream, having received at most 2 + (tiles of
\* the Skeleton) + (series of the Skeleton) messages; at no time has the
\* request sent more.
C33_TerminatesWithinBound ==
    /\ (rx = "open" /\ QueriesReturned) ~> (rx = "dropped" \/ EndedCleanly)
    /\ [](pc # "fetch" => Len(Stream) <= MaxMessages(RequestSkeleton))

\* the end of a stream over a chart of two series that both returned
\* points: every sender is dropped and the bound of four messages is met
C33_Witness ==
    /\ rx = "ended"
    /\ AllSendersDropped
    /\ Len(units) = 2
    /\ units[1].kind = "series" /\ units[2].kind = "series"
    /\ Len(wire) = 4
    /\ Len(wire) = MaxMessages(wire[1].skeleton[1])

\* the timestamps of the points never go down
TimeOrdered(points) ==
    \A i \in 1..(Len(points) - 1) : points[i].time_ms <= points[i + 1].time_ms

\* C34: for an input whose timestamps never go down and for every bound,
\* the timestamps of the points downsample_points returns never go down
\* either, and each of them is the timestamp of a point of the input.
C34_TimeOrderPreserved ==
    (Downsampled /\ TimeOrdered(call.args[1])) =>
        /\ TimeOrdered(call.ret[1])
        /\ \A i \in 1..Len(call.ret[1]) :
              \E j \in 1..Len(call.args[1]) :
                  call.args[1][j].time_ms = call.ret[1][i].time_ms

\* four points with two equal timestamps and a gap, reduced to two buckets
\* stamped with the times of their second points
C34_Witness ==
    /\ Downsampled
    /\ Len(call.args[1]) = 4
    /\ call.args[2] = 2
    /\ [i \in 1..4 |-> call.args[1][i].time_ms] = <<0, 1000, 1000, 2500>>
    /\ [i \in 1..Len(call.ret[1]) |-> call.ret[1][i].time_ms] = <<1000, 2500>>

\* C35: the resolver is a single-pass, order-independent substitution: for
\* the same template, source id and hours (or the same variable map) the
\* result is the same in whatever order the variables are applied, text a
\* substituted value brings in (a source id that contains ${hours}) never
\* read as a placeholder.
C35_OrderIndependentSinglePass ==
    /\ (call.op = "prepare_tile_query" /\ call.ret # None) =>
          \A order \in VarOrders :
              call.ret[1] = prepare_tile_query(call.args[1], call.args[2],
                                               call.args[3], order)
    /\ (call.op = "prepare_query" /\ call.ret # None) =>
          \A order \in KeyOrders(DOMAIN call.args[2]) :
              call.ret[1] = prepare_query_in(call.args[1], call.args[2], order)

====
